---- MODULE Spec2Model ----
(***************************************************************************)
(* Gmail unsubscriber backend: the batch orchestrator                      *)
(* (process_unsubscriptions), the activity log (add_activity), the stats   *)
(* model (user_stats) and the SQLite store behind them, as a state         *)
(* machine.  Python dicts are functions whose DOMAIN is the key set;       *)
(* Python lists are sequences.                                             *)
(***************************************************************************)
EXTENDS Integers, Sequences, FiniteSets, TLC

(***************************************************************************)
(* Bounds of the exploration                                               *)
(***************************************************************************)
\* the requests explored: each start_unsubscription request weighs one plus
\* the max_emails it asks for, and the weights of a behaviour add up to at
\* most MaxWork
MaxWork == 5
\* number of add_activity calls explored by SpecActivity
MaxCalls == 4
\* number of leaves of the MIME trees explored by SpecMime
MaxLeaves == 3
\* number of elements of the HTML bodies explored by SpecLinks
MaxAnchors == 2
\* number of messages the first thread of SpecRace works through (the second
\* works through one)
MaxRaceMessages == 2
\* number of logins explored by SpecOauth
MaxLogins == 3

(***************************************************************************)
(* Program constants                                                       *)
(***************************************************************************)
\* app.py:1017  "Limit to 50 most recent activities"
ActivityLimit == 50
\* app.py:1237  "Assume 2 minutes saved per unsubscription"
MinutesPerUnsub == 2
\* app.py:1518  response.status_code == 200
HttpOk == 200

Users == {"u1@gmail.com"}

Min(a, b) == IF a < b THEN a ELSE b

(***************************************************************************)
(* Python dict helpers                                                     *)
(***************************************************************************)
EmptyDict == <<>>

\* d.get(k, default)
Get(d, k, default) == IF k \in DOMAIN d THEN d[k] ELSE default

\* d[k] = v on a dict d (insert or overwrite)
Put(d, k, v) == [x \in DOMAIN d \cup {k} |-> IF x = k THEN v ELSE d[x]]

(***************************************************************************)
(* Mail fixtures.  A body is the decoded HTML, kept as the sequence of its *)
(* elements; <<>> is the empty string.  An anchor carries its visible text *)
(* and its href.                                                           *)
(***************************************************************************)
A(text, href) == [tag |-> "a", text |-> text, href |-> href]
P(text) == [tag |-> "p", text |-> text, href |-> ""]

NoBody == [has_data |-> FALSE, decodable |-> TRUE, html |-> <<>>]
Body(html) == [has_data |-> TRUE, decodable |-> TRUE, html |-> html]
BadBody == [has_data |-> TRUE, decodable |-> FALSE, html |-> <<>>]

\* a MIME node: a leaf has parts = <<>>
Leaf(mime, body) == [mimeType |-> mime, body |-> body, parts |-> <<>>]
Multi(parts) == [mimeType |-> "multipart/alternative", body |-> NoBody, parts |-> parts]
NoPayload == [mimeType |-> "", body |-> NoBody, parts |-> <<>>]

\* The From header.  form "named" is  Name <local@domain>, "angle" is
\* <local@domain>, "bare" is local@domain written as init \o last (its last
\* character apart), "absent" is a message without the header.
From(form, display, local, domain) ==
  [form |-> form, display |-> display, local |-> local, domain |-> domain, init |-> "", last |-> ""]
BareFrom(local, domain, init, last) ==
  [form |-> "bare", display |-> "", local |-> local, domain |-> domain, init |-> init, last |-> last]
NoFrom == [form |-> "absent", display |-> "", local |-> "", domain |-> "", init |-> "", last |-> ""]

Message(from, subject, payload) == [from |-> from, subject |-> subject, payload |-> payload]

HtmlTwoLinks == <<P("Hello"), A("Unsubscribe", "https://x.com/unsubscribe"), A("Manage", "https://x.com/opt-out")>>
HtmlOneLink == <<A("unsubscribe here", "https://y.org/u")>>
HtmlNoLinks == <<P("Hello"), A("Shop now", "https://x.com/shop")>>

MailStore ==
  [m1 |-> Message(From("named", "Shop", "news", "X.com"), "Sale",
                   Multi(<<Leaf("text/plain", Body(<<P("Hello")>>)), Leaf("text/html", Body(HtmlTwoLinks))>>)),
   m2 |-> Message(From("angle", "", "info", "y.org"), "Weekly", Leaf("text/html", Body(HtmlOneLink))),
   m3 |-> Message(From("named", "Shop", "news", "X.com"), "Sale 2", Leaf("text/plain", Body(HtmlOneLink))),
   m4 |-> Message(NoFrom, "Hi", Leaf("text/html", Body(HtmlOneLink))),
   m5 |-> Message(From("named", "Deals", "deals", "x.com"), "Deals", Leaf("text/html", Body(HtmlNoLinks))),
   m6 |-> Message(BareFrom("promo", "z.net", "promo@z.ne", "t"), "", NoPayload)]

MsgIds == DOMAIN MailStore

\* the listings a mailbox search can return (newest first), before maxResults cuts them
Mailboxes ==
  { <<"m1", "m2", "m3">>,
    <<"m3", "m1", "m2">>,
    <<"m4", "m5", "m1">>,
    <<"m6", "m2", "m4">>,
    <<"m5", "m6", "m3">> }

(***************************************************************************)
(* Mail Content Extractor                                                  *)
(***************************************************************************)
RECURSIVE extract_part(_, _)
RECURSIVE extract_parts(_, _, _)

\* base64 decode of one body; a malformed body raises, and the except clause
\* of the enclosing extract call returns ""
decode_body(body) == IF body.decodable THEN body.html ELSE <<>>

\* the loop "for part in parts" of extract_html_content / extract_text_content
\* from its k-th part on, looking for leaves of type mime
extract_parts(parts, k, mime) ==
  IF k > Len(parts) THEN <<>>
  ELSE IF parts[k].mimeType = mime
       THEN IF parts[k].body.has_data
            THEN decode_body(parts[k].body)
            ELSE extract_parts(parts, k + 1, mime)
       ELSE IF parts[k].parts # <<>>
            THEN LET nested_content == extract_part(parts[k], mime)
                 IN  IF nested_content # <<>> THEN nested_content
                     ELSE extract_parts(parts, k + 1, mime)
            ELSE extract_parts(parts, k + 1, mime)

extract_part(payload, mime) ==
  IF payload.parts # <<>>
  THEN extract_parts(payload.parts, 1, mime)
  ELSE IF payload.mimeType = mime /\ payload.body.has_data
       THEN decode_body(payload.body)
       ELSE <<>>

\* slip: only the parts listed by the payload itself are looked at
extract_html_top_level(node) ==
  IF node.parts # <<>>
  THEN LET hits == {k \in 1..Len(node.parts) :
                      node.parts[k].mimeType = "text/html" /\ node.parts[k].body.has_data}
       IN  IF hits = {} THEN <<>>
           ELSE decode_body(node.parts[CHOOSE k \in hits : \A j \in hits : k <= j].body)
  ELSE IF node.mimeType = "text/html" /\ node.body.has_data THEN decode_body(node.body) ELSE <<>>

extract_html_content(node) == extract_part(node, "text/html")

extract_text_content(node) == extract_part(node, "text/plain")

\* str.lower() and str.capitalize() on the strings of the fixtures
LowerTable == ("X.com" :> "x.com")
Lower(s) == Get(LowerTable, s, s)
FirstLabelCapitalized == ("x.com" :> "X") @@ ("y.org" :> "Y") @@ ("z.net" :> "Z")

DefaultMetadata ==
  [sender |-> "", sender_name |-> "", sender_email |-> "", domain |-> "", subject |-> "", date |-> ""]

\* the value of the From header as written
FromValue(from) ==
  CASE from.form = "named" -> from.display \o " <" \o from.local \o "@" \o from.domain \o ">"
    [] from.form = "angle" -> "<" \o from.local \o "@" \o from.domain \o ">"
    [] from.form = "bare"  -> from.init \o from.last
    [] OTHER -> ""

\* groups 1 and 2 of  ^"?([^"<]*)"?\s*<?([^>]+)>?$  on the header value: the
\* first group is greedy, so a bare address leaves only its last character to
\* the second group
FromGroups(from) ==
  IF from.form = "bare"
  THEN [name |-> from.init, email |-> from.last, has_at |-> FALSE, local |-> from.last, domain |-> ""]
  ELSE [name |-> from.display, email |-> from.local \o "@" \o from.domain, has_at |-> TRUE,
        local |-> from.local, domain |-> from.domain]

extract_email_metadata(message) ==
  LET from == message.from
      g == FromGroups(from)
      parsed ==
        IF from.form = "absent" THEN DefaultMetadata
        ELSE [DefaultMetadata EXCEPT
                !.sender = FromValue(from),
                !.sender_name = IF g.name # "" THEN g.name ELSE g.local,
                !.sender_email = g.email,
                !.domain = IF g.has_at THEN Lower(g.domain) ELSE ""]
      named ==
        IF parsed.sender_name = "" /\ parsed.domain # ""
        THEN [parsed EXCEPT !.sender_name = Get(FirstLabelCapitalized, parsed.domain, parsed.domain)]
        ELSE parsed
  IN  [named EXCEPT !.subject = message.subject]

\* slip: no handler around the fetch, the exception of messages().get leaves
\* get_email
get_email_unguarded(fetch, message) ==
  IF fetch = "raise" THEN [raised |-> "HttpError"]
  ELSE [content |-> <<>>, metadata |-> EmptyDict]

\* get_email: fetch is what messages().get did: "raise", "none" or "ok"
get_email(fetch, message) ==
  IF fetch # "ok" THEN [content |-> <<>>, metadata |-> EmptyDict]
  ELSE IF message.payload = NoPayload
       THEN [content |-> <<>>, metadata |-> extract_email_metadata(message)]
       ELSE LET html_content == extract_html_content(message.payload)
            IN  [content |-> IF html_content # <<>> THEN html_content
                             ELSE extract_text_content(message.payload),
                 metadata |-> extract_email_metadata(message)]

(***************************************************************************)
(* Unsubscribe Link Locator                                                *)
(***************************************************************************)
\* re.compile(r'unsubscribe|opt[-\s]?out|email preferences', re.I).search(s)
\* on the strings of the fixtures
PatternHits ==
  {"Unsubscribe", "unsubscribe here", "https://x.com/unsubscribe", "https://x.com/opt-out",
   "Manage email preferences", "OPT OUT", "mailto:list@x.com?subject=unsubscribe"}
pattern_search(s) == s \in PatternHits

RECURSIVE extract_links_from(_, _)
extract_links_from(html, k) ==
  IF k > Len(html) THEN <<>>
  ELSE LET link == html[k]
           rest == extract_links_from(html, k + 1)
       IN  IF link.tag = "a" /\ link.href # ""
              /\ (pattern_search(link.text) \/ pattern_search(link.href))
           THEN <<link.href>> \o rest
           ELSE rest

extract_unsub_links(html) == IF html = <<>> THEN <<>> ELSE extract_links_from(html, 1)

(***************************************************************************)
(* Unsubscription Executor                                                 *)
(***************************************************************************)
\* what requests.get can do: a status code, or 0 for a timeout / connection error
HttpResults == {200, 404, 0}

\* slip: every status of the 2xx class counts as a success
execute_unsub_any_2xx(status) == status \in 200..299

execute_unsub(status) == status = HttpOk

(***************************************************************************)
(* Result Aggregator / Stats Model                                         *)
(***************************************************************************)
ZeroStats ==
  [total_scanned |-> 0, total_unsubscribed |-> 0, time_saved |-> 0, domains_unsubscribed |-> EmptyDict]

\* slips of the increment of total_scanned: left out, done twice, done on the wrong key
IncTotalScannedSkip(stats) == stats
IncTotalScannedTwice(stats) == [stats EXCEPT !.total_scanned = @ + 2]
IncTotalScannedWrongKey(stats) == [stats EXCEPT !.total_unsubscribed = @ + 1]

\* user_stats[user_id]["total_scanned"] += 1
IncTotalScanned(stats) == [stats EXCEPT !.total_scanned = @ + 1]

\* user_stats[user_id]["total_unsubscribed"] += 1
IncTotalUnsubscribed(stats) == [stats EXCEPT !.total_unsubscribed = @ + 1]

\* slip: one minute per unsubscription
IncTimeSavedOne(stats) == [stats EXCEPT !.time_saved = @ + 1]

\* user_stats[user_id]["time_saved"] += 2
IncTimeSaved(stats) == [stats EXCEPT !.time_saved = @ + MinutesPerUnsub]

\* slip: the count of the domain is set to 1 instead of incremented
TrackDomainOverwrite(stats, metadata) ==
  LET domain == Get(metadata, "domain", "unknown")
      domains == stats.domains_unsubscribed
      entry == IF domain \in DOMAIN domains THEN domains[domain]
               ELSE [count |-> 0, sender_name |-> Get(metadata, "sender_name", domain), emails |-> {}]
      sender_email == Get(metadata, "sender_email", "")
      updated == [entry EXCEPT !.count = 1,
                               !.emails = IF sender_email # "" THEN @ \cup {sender_email} ELSE @]
  IN  IF domain # ""
      THEN [stats EXCEPT !.domains_unsubscribed = Put(domains, domain, updated)]
      ELSE stats

\* slip: the count is incremented only for a sender email not seen before
TrackDomainCountOnce(stats, metadata) ==
  LET domain == Get(metadata, "domain", "unknown")
      domains == stats.domains_unsubscribed
      entry == IF domain \in DOMAIN domains THEN domains[domain]
               ELSE [count |-> 0, sender_name |-> Get(metadata, "sender_name", domain), emails |-> {}]
      sender_email == Get(metadata, "sender_email", "")
      updated == [entry EXCEPT !.count = IF sender_email \in entry.emails THEN @ ELSE @ + 1,
                               !.emails = IF sender_email # "" THEN @ \cup {sender_email} ELSE @]
  IN  IF domain # ""
      THEN [stats EXCEPT !.domains_unsubscribed = Put(domains, domain, updated)]
      ELSE stats

\* "Track domain statistics"
TrackDomain(stats, metadata) ==
  LET domain == Get(metadata, "domain", "unknown")
      domains == stats.domains_unsubscribed
      entry == IF domain \in DOMAIN domains THEN domains[domain]
               ELSE [count |-> 0, sender_name |-> Get(metadata, "sender_name", domain), emails |-> {}]
      sender_email == Get(metadata, "sender_email", "")
      updated == [entry EXCEPT !.count = @ + 1,
                               !.emails = IF sender_email # "" THEN @ \cup {sender_email} ELSE @]
  IN  IF domain # ""
      THEN [stats EXCEPT !.domains_unsubscribed = Put(domains, domain, updated)]
      ELSE stats

(***************************************************************************)
(* The SQLite store (database.py).  db.up is whether a write can succeed;  *)
(* when it cannot, the method logs, returns False and leaves the store.    *)
(***************************************************************************)
EmptyDb(up) ==
  [up |-> up, users |-> {}, user_stats |-> EmptyDict, domains_unsubscribed |-> EmptyDict,
   user_activities |-> <<>>, next_id |-> 1]

\* json.dumps(list(emails_set)): the elements in some order
RECURSIVE ListOf(_)
ListOf(set) ==
  IF set = {} THEN <<>>
  ELSE LET e == CHOOSE x \in set : TRUE IN <<e>> \o ListOf(set \ {e})

\* json.dumps(metadata) if the activity has metadata, else NULL
MetadataJson(metadata) ==
  IF metadata = EmptyDict THEN [is_null |-> TRUE, text |-> EmptyDict]
  ELSE [is_null |-> FALSE, text |-> metadata]

ensure_user_exists(d, user_id) ==
  IF user_id \in d.users THEN d
  ELSE [d EXCEPT !.users = @ \cup {user_id},
                 !.user_stats = Put(@, user_id, [total_scanned |-> 0, total_unsubscribed |-> 0, time_saved |-> 0])]

RECURSIVE ReplaceDomains(_, _, _, _)
\* INSERT OR REPLACE INTO domains_unsubscribed for each domain of the dict
ReplaceDomains(table, user_id, domains_data, todo) ==
  IF todo = {} THEN table
  ELSE LET domain == CHOOSE x \in todo : TRUE
           row == [sender_name |-> domains_data[domain].sender_name,
                   count |-> domains_data[domain].count,
                   emails_json |-> ListOf(domains_data[domain].emails)]
       IN  ReplaceDomains(Put(table, <<user_id, domain>>, row), user_id, domains_data, todo \ {domain})

\* slip: the rows of domains_unsubscribed are not written
save_single_user_stats_totals(d, user_id, stats) ==
  IF ~d.up THEN d
  ELSE LET d1 == ensure_user_exists(d, user_id)
       IN  [d1 EXCEPT
              !.user_stats = Put(@, user_id, [total_scanned |-> stats.total_scanned,
                                              total_unsubscribed |-> stats.total_unsubscribed,
                                              time_saved |-> stats.time_saved])]

save_single_user_stats(d, user_id, stats) ==
  IF ~d.up THEN d
  ELSE LET d1 == ensure_user_exists(d, user_id)
       IN  [d1 EXCEPT
              !.user_stats = Put(@, user_id, [total_scanned |-> stats.total_scanned,
                                              total_unsubscribed |-> stats.total_unsubscribed,
                                              time_saved |-> stats.time_saved]),
              !.domains_unsubscribed =
                 ReplaceDomains(@, user_id, stats.domains_unsubscribed, DOMAIN stats.domains_unsubscribed)]

\* set(json.loads(emails_json))
SetOf(list) == {list[k] : k \in 1..Len(list)}

\* the domains of the rows of user_id in domains_unsubscribed
DomainsOf(d, user_id) == {key[2] : key \in {x \in DOMAIN d.domains_unsubscribed : x[1] = user_id}}

\* load_user_stats: every row of user_stats with the domain rows of its user;
\* {} when the query raises
load_user_stats(d) ==
  IF ~d.up THEN EmptyDict
  ELSE [u \in DOMAIN d.user_stats |->
          [total_scanned |-> d.user_stats[u].total_scanned,
           total_unsubscribed |-> d.user_stats[u].total_unsubscribed,
           time_saved |-> d.user_stats[u].time_saved,
           domains_unsubscribed |->
             [domain \in DomainsOf(d, u) |->
                LET row == d.domains_unsubscribed[<<u, domain>>]
                IN  [count |-> row.count,
                     sender_name |-> IF row.sender_name # "" THEN row.sender_name ELSE domain,
                     emails |-> SetOf(row.emails_json)]]]]

\* rows of user_id with a later timestamp than row r
LaterRows(rows, user_id, r) ==
  {j \in 1..Len(rows) : rows[j].user_id = user_id /\ rows[j].timestamp > r.timestamp}

\* slip: the cleanup keeps the 50 newest rows of the table, whoever they belong to
DeleteOldActivitiesAnyUser(rows, user_id) ==
  SelectSeq(rows, LAMBDA r : Cardinality({j \in 1..Len(rows) : rows[j].timestamp > r.timestamp})
                               < ActivityLimit)

\* DELETE ... WHERE user_id = ? AND id NOT IN (SELECT id ... ORDER BY timestamp
\* DESC LIMIT 50); the timestamps of one user's rows are distinct
DeleteOldActivities(rows, user_id) ==
  IF Cardinality({j \in 1..Len(rows) : rows[j].user_id = user_id}) <= ActivityLimit
  THEN rows
  ELSE SelectSeq(rows, LAMBDA r : r.user_id # user_id
                                  \/ Cardinality(LaterRows(rows, user_id, r)) < ActivityLimit)

save_single_user_activity(d, user_id, activity) ==
  IF ~d.up THEN d
  ELSE LET d1 == ensure_user_exists(d, user_id)
           row == [id |-> d1.next_id, user_id |-> user_id, type |-> activity.type,
                   message |-> activity.message, metadata |-> MetadataJson(activity.metadata),
                   timestamp |-> activity.time]
       IN  [d1 EXCEPT !.user_activities = DeleteOldActivities(Append(@, row), user_id),
                      !.next_id = @ + 1]

RECURSIVE NewestFirst(_, _)
\* ORDER BY timestamp DESC over the rows at the positions S (the timestamps of
\* one user's rows are distinct)
NewestFirst(rows, S) ==
  IF S = {} THEN <<>>
  ELSE LET j == CHOOSE x \in S : \A y \in S : rows[y].timestamp <= rows[x].timestamp
       IN  <<rows[j]>> \o NewestFirst(rows, S \ {j})

\* the activity load_user_activities builds from a row
ActivityOfRow(row) ==
  [type |-> row.type, message |-> row.message, time |-> row.timestamp,
   metadata |-> IF row.metadata.is_null THEN EmptyDict ELSE row.metadata.text]

\* load_user_activities: per user the 50 newest rows, newest first; {} when
\* the query raises
load_user_activities(d) ==
  IF ~d.up THEN EmptyDict
  ELSE LET rows == d.user_activities
       IN  [u \in {rows[j].user_id : j \in 1..Len(rows)} |->
              LET sorted == NewestFirst(rows, {j \in 1..Len(rows) : rows[j].user_id = u})
              IN  [j \in 1..Min(Len(sorted), ActivityLimit) |-> ActivityOfRow(sorted[j])]]

\* save_stats_to_db: skipped when the user has no stats in memory
save_stats_to_db(d, stats_map, user_id) ==
  IF user_id \in DOMAIN stats_map THEN save_single_user_stats(d, user_id, stats_map[user_id]) ELSE d

save_activity_to_db(d, user_id, activity) == save_single_user_activity(d, user_id, activity)

(***************************************************************************)
(* Activity log                                                            *)
(***************************************************************************)
\* the text of an activity, with the values its f-string interpolates
Text(text, index, n, who) ==
  [text |-> text, i |-> index, n |-> n, who |-> who, email |-> "", ok |-> 0, failed |-> 0]

Activity(type, message, time, metadata) ==
  [type |-> type, message |-> message, time |-> time, metadata |-> metadata]

\* slip: the cut keeps the tail of the list, [-50:], and so drops the newest
InsertActivityTail(list, activity) ==
  LET inserted == <<activity>> \o list
  IN  IF Len(inserted) > ActivityLimit
      THEN SubSeq(inserted, Len(inserted) - ActivityLimit + 1, Len(inserted))
      ELSE inserted

\* user_activities[user_id].insert(0, activity), then the cut to 50
InsertActivity(list, activity) ==
  LET inserted == <<activity>> \o list
  IN  IF Len(inserted) > ActivityLimit THEN SubSeq(inserted, 1, ActivityLimit) ELSE inserted

\* add_activity on the world w = [user_activities, db, now]
add_activity(w, user_id, type, message, metadata) ==
  LET activity == Activity(type, message, w.now + 1, metadata)
      list == IF user_id \in DOMAIN w.user_activities THEN w.user_activities[user_id] ELSE <<>>
  IN  [user_activities |-> Put(w.user_activities, user_id, InsertActivity(list, activity)),
       db |-> save_activity_to_db(w.db, user_id, activity),
       now |-> w.now + 1]

(***************************************************************************)
(* State                                                                   *)
(***************************************************************************)
VARIABLES
  user_stats,        \* app.py:149   user id -> stats
  user_activities,   \* app.py:150   user id -> list of activities, newest first
  db,                \* the SQLite store
  now,               \* datetime.now(), as the number of the last activity
  tokens,            \* users holding a JWT issued by oauth2callback
  mailbox,           \* the listing the Gmail search answers with
  pc,                \* where the request being served stands
  user_id,           \* locals of start_unsubscription / process_unsubscriptions
  max_emails,
  unsubscribed_label_id,
  messages,
  i,
  email_data,
  unsub_links,
  link,              \* position of the loop "for link in unsub_links"
  unsubscribed,
  successful_count,
  failed_count,
  runs,              \* history: number of requests served or in service
  work,              \* history: weight of the requests served or in service
  calls,             \* history: number of direct add_activity calls (SpecActivity)
  added,             \* history: user id -> every activity added, oldest first
  emitted,           \* history: activities of the current run, in order, with their message index
  labelled,          \* history: messages of the current run moved to the UNSUBSCRIBED label
  fetched,           \* history: message ids handed to get_email in the current run
  fetch_result,      \* history: what the fetch of the current message did
  outcomes,          \* history: outcome of each message of the current run
  stats_at_start,    \* history: the user's stats when the run started
  stats_at_msg,      \* history: the user's stats when the current message started
  result,            \* history: how the last run ended
  batch,             \* history: the user and the search result of the last run
  succeeded,         \* history: user id -> domain -> messages that ended Unsubscribed
  requested,         \* history: the links requested for the current message, with what execute_unsub returned
  delays,            \* history: number of time.sleep(2) calls of the current run
  modify_calls,      \* history: the messages().modify calls of the current run, with whether they succeeded
  label_setup,       \* history: what ensure_label_exists did in the current run
  auth_failure,      \* history: the credential failure of the current run, if any
  lifecycle,         \* history: whether the process restarted, and the users erased so far
  payload,           \* local of get_email: the payload of the message at hand (SpecMime)
  threads,           \* the request threads of SpecRace: thread -> position, register, work left
  oauth              \* app.py:151 oauth_states, the browser session, and the history of SpecOauth

memVars == <<user_stats, user_activities, db, now>>
envVars == <<tokens, mailbox>>
localVars == <<user_id, max_emails, unsubscribed_label_id, messages, i, email_data, unsub_links,
               link, unsubscribed, successful_count, failed_count>>
histVars == <<runs, work, calls, added, emitted, labelled, fetched, fetch_result, outcomes, stats_at_start,
              stats_at_msg, result, batch, succeeded>>
traceVars == <<requested, delays, modify_calls, label_setup, auth_failure>>
NoLifecycle == [restarted |-> FALSE, erased |-> {}]
NoThreads == <<>>
\* no state issued yet; a state is a positive number, 0 is no state
NoOauth == [oauth_states |-> {}, session |-> 0, issued |-> {}, superseded |-> {},
            accepted |-> {}, late |-> {}, foreign |-> {}]
vars == <<memVars, envVars, pc, localVars, histVars, traceVars, lifecycle, payload, threads, oauth>>

World == [user_activities |-> user_activities, db |-> db, now |-> now]

NoEmail == [content |-> <<>>, metadata |-> EmptyDict]

\* the stats of a user as the endpoints read them
StatsOf(u) == IF u \in DOMAIN user_stats THEN user_stats[u] ELSE ZeroStats

ActivitiesOf(u) == IF u \in DOMAIN user_activities THEN user_activities[u] ELSE <<>>

\* history bookkeeping
Emit(log, type, text, index) == Append(log, [type |-> type, text |-> text, msg |-> index])
Added(hist, u, w) == [hist EXCEPT ![u] = Append(@, Head(w.user_activities[u]))]
CountSucceeded(hist, u, domain) ==
  [hist EXCEPT ![u] = Put(@, domain, Get(@, domain, 0) + 1)]

SetWorld(w) ==
  /\ user_activities' = w.user_activities
  /\ db' = w.db
  /\ now' = w.now

ResetLocals ==
  /\ user_id' = ""
  /\ max_emails' = 0
  /\ unsubscribed_label_id' = ""
  /\ messages' = <<>>
  /\ i' = 0
  /\ email_data' = NoEmail
  /\ unsub_links' = <<>>
  /\ link' = 0
  /\ unsubscribed' = FALSE
  /\ successful_count' = 0
  /\ failed_count' = 0

Init ==
  /\ user_stats = EmptyDict
  /\ user_activities = EmptyDict
  /\ db = EmptyDb(TRUE)
  /\ now = 0
  /\ tokens = {}
  /\ mailbox \in Mailboxes
  /\ labelled = {}
  /\ pc = "idle"
  /\ user_id = ""
  /\ max_emails = 0
  /\ unsubscribed_label_id = ""
  /\ messages = <<>>
  /\ i = 0
  /\ email_data = NoEmail
  /\ unsub_links = <<>>
  /\ link = 0
  /\ unsubscribed = FALSE
  /\ successful_count = 0
  /\ failed_count = 0
  /\ runs = 0
  /\ work = 0
  /\ calls = 0
  /\ added = [u \in Users |-> <<>>]
  /\ emitted = <<>>
  /\ fetched = <<>>
  /\ fetch_result = ""
  /\ outcomes = <<>>
  /\ stats_at_start = ZeroStats
  /\ stats_at_msg = ZeroStats
  /\ result = "none"
  /\ batch = [user |-> "", found |-> <<>>]
  /\ succeeded = [u \in Users |-> EmptyDict]
  /\ requested = <<>>
  /\ delays = 0
  /\ modify_calls = <<>>
  /\ label_setup = "none"
  /\ auth_failure = "none"
  /\ lifecycle = NoLifecycle
  /\ threads = NoThreads
  /\ oauth = NoOauth
  /\ payload = NoPayload

(***************************************************************************)
(* oauth2callback, lines 501-520: first authentication of a user           *)
(***************************************************************************)
\* line 502: "if user_id not in user_stats:"
FirstLogin(stats_map, u) == u \notin DOMAIN stats_map

\* oauth2callback after the token exchange, lines 488-538: the user's entries
\* are initialised and the JWT is issued
Connected(u) ==
  /\ pc = "idle"
  /\ LET first_stats == FirstLogin(user_stats, u)
         first_activity == u \notin DOMAIN user_activities
         stats1 == IF first_stats THEN Put(user_stats, u, ZeroStats) ELSE user_stats
         db1 == IF first_stats THEN save_stats_to_db(db, stats1, u) ELSE db
         activity == Activity("info", Text("Successfully connected Gmail account", 0, 0, ""), now + 1, EmptyDict)
     IN  /\ user_stats' = stats1
         /\ IF first_activity
            THEN /\ user_activities' = Put(user_activities, u, <<activity>>)
                 /\ db' = save_activity_to_db(db1, u, activity)
                 /\ now' = now + 1
                 /\ added' = [added EXCEPT ![u] = Append(@, activity)]
            ELSE /\ user_activities' = user_activities
                 /\ db' = db1
                 /\ now' = now
                 /\ added' = added
  /\ tokens' = tokens \cup {u}
  /\ UNCHANGED <<mailbox, pc, localVars, traceVars, lifecycle, payload, threads>>
  /\ UNCHANGED <<runs, work, calls, emitted, labelled, fetched, fetch_result, outcomes, stats_at_start,
                 stats_at_msg, result, batch, succeeded>>

Login(u) == Connected(u) /\ UNCHANGED oauth

(***************************************************************************)
(* start_unsubscription, lines 698-717, with process_unsubscriptions       *)
(* running inside it                                                       *)
(***************************************************************************)
\* the except clause of start_unsubscription: the batch raised
Propagate(u, w, log, hist) ==
  LET w1 == add_activity(w, u, "error", Text("Error in unsubscription process", 0, 0, ""), EmptyDict)
  IN  /\ SetWorld(w1)
      /\ added' = Added(hist, u, w1)
      /\ emitted' = Emit(log, "error", "Error in unsubscription process", 0)
      /\ pc' = "idle"
      /\ result' = "raised"
      /\ ResetLocals

\* slip: the except clause of the refresh logs the error and goes on
RefreshSwallowed(creds) == FALSE

\* lines 1128-1134: creds.refresh raises and the except clause re-raises
RefreshRaises(creds) == creds = "refresh_failed"

\* lines 706-709 and 1105-1135: the request starts, the dicts are initialised,
\* the credentials are refreshed when they are not valid
StartUnsubscription(u) ==
  /\ UNCHANGED <<lifecycle, payload, threads, oauth>>
  /\ pc = "idle"
  /\ u \in tokens
  /\ runs' = runs + 1
  /\ \E limit \in 1..(MaxWork - work - 1), creds \in {"valid", "refreshed", "refresh_failed"} :
       LET w1 == add_activity(World, u, "info", Text("Started unsubscription process", 0, 0, ""), EmptyDict)
           stats1 == IF u \in DOMAIN user_stats THEN user_stats ELSE Put(user_stats, u, ZeroStats)
           log1 == Emit(<<>>, "info", "Started unsubscription process", 0)
       IN  /\ user_stats' = stats1
           /\ stats_at_start' = stats1[u]
           /\ stats_at_msg' = stats1[u]
           /\ fetched' = <<>>
           /\ batch' = [user |-> u, found |-> <<>>]
           /\ labelled' = {}
           /\ fetch_result' = ""
           /\ outcomes' = <<>>
           /\ work' = work + 1 + limit
           /\ requested' = <<>>
           /\ delays' = 0
           /\ modify_calls' = <<>>
           /\ label_setup' = "none"
           /\ auth_failure' = IF creds = "refresh_failed" THEN "refresh" ELSE "none"
           /\ IF RefreshRaises(creds)
              THEN Propagate(u, w1, log1, Added(added, u, w1))
              ELSE /\ SetWorld(w1)
                   /\ added' = Added(added, u, w1)
                   /\ emitted' = log1
                   /\ pc' = "labels"
                   /\ result' = "running"
                   /\ user_id' = u
                   /\ max_emails' = limit
                   /\ UNCHANGED <<unsubscribed_label_id, messages, i, email_data, unsub_links, link,
                                  unsubscribed, successful_count, failed_count>>
  /\ UNCHANGED <<envVars, calls, succeeded>>

\* lines 1137-1143: ensure_label_exists returns the label id, or None when the
\* label calls fail
SetupLabels ==
  /\ UNCHANGED <<lifecycle, payload, threads, oauth>>
  /\ pc = "labels"
  /\ \E label_id \in {"Label_1", ""} :
       LET w1 == add_activity(World, user_id, "info", Text("Setting up Gmail labels...", 0, 0, ""), EmptyDict)
       IN  /\ SetWorld(w1)
           /\ added' = Added(added, user_id, w1)
           /\ emitted' = Emit(emitted, "info", "Setting up Gmail labels...", 0)
           /\ unsubscribed_label_id' = label_id
           /\ label_setup' = IF label_id = "" THEN "failed" ELSE "created"
  /\ pc' = "search"
  /\ UNCHANGED <<user_stats, envVars>>
  /\ UNCHANGED <<user_id, max_emails, messages, i, email_data, unsub_links, link, unsubscribed,
                 successful_count, failed_count>>
  /\ UNCHANGED <<runs, work, calls, labelled, fetched, fetch_result, outcomes, stats_at_start, stats_at_msg,
                 result, batch, succeeded>>
  /\ UNCHANGED <<requested, delays, modify_calls, auth_failure>>

\* slips of the loop: a break where the code continues, a walk from the end
NextPcBreak(index, n) == "summary"
MessageAtReversed(msgs, index) == msgs[Len(msgs) - index + 1]

\* slip: after the last message the run waits for more instead of summing up
NextPcWaits(index, n) == IF index < n THEN "get_email" ELSE "waiting"

\* "for i, msg in enumerate(messages)": where the loop goes after its
\* index-th message, and the message it hands to the body
NextPc(index, n) == IF index < n THEN "get_email" ELSE "summary"

MessageAt(msgs, index) == msgs[index]

\* slip: the early return on an empty search result is missing
NoMessagesNever(found) == FALSE

\* "if not messages:"
NoMessages(found) == found = <<>>

\* search_emails: at most max_results ids of the listing, or none when the
\* query matches nothing
search_emails(listing, matches, max_results) ==
  IF matches THEN SubSeq(listing, 1, Min(max_results, Len(listing))) ELSE <<>>

\* lines 1145-1157
Search ==
  /\ UNCHANGED <<lifecycle, payload, threads, oauth>>
  /\ pc = "search"
  /\ LET w1 == add_activity(World, user_id, "info", Text("Searching for subscription emails...", 0, 0, ""), EmptyDict)
         log1 == Emit(emitted, "info", "Searching for subscription emails...", 0)
         hist1 == Added(added, user_id, w1)
     IN  \E answer \in {"hit", "miss", "raise"} :
           LET found == search_emails(mailbox, answer = "hit", max_emails)
           IN  /\ auth_failure' = IF answer = "raise" THEN "search" ELSE auth_failure
               /\ IF answer = "raise"
                  THEN Propagate(user_id, w1, log1, hist1) /\ batch' = batch
                  ELSE IF NoMessages(found)
                  THEN LET w2 == add_activity(w1, user_id, "warning", Text("No subscription emails found", 0, 0, ""), EmptyDict)
                       IN  /\ SetWorld(w2)
                           /\ added' = Added(hist1, user_id, w2)
                           /\ emitted' = Emit(log1, "warning", "No subscription emails found", 0)
                           /\ batch' = [batch EXCEPT !.found = found]
                           /\ pc' = "idle"
                           /\ result' = "returned"
                           /\ ResetLocals
                  ELSE LET w2 == add_activity(w1, user_id, "info", Text("Found subscription emails", 0, Len(found), ""), EmptyDict)
                       IN  /\ SetWorld(w2)
                           /\ added' = Added(hist1, user_id, w2)
                           /\ emitted' = Emit(log1, "info", "Found subscription emails", 0)
                           /\ batch' = [batch EXCEPT !.found = found]
                           /\ pc' = NextPc(0, Len(found))
                           /\ result' = result
                           /\ messages' = found
                           /\ i' = 1
                           /\ successful_count' = 0
                           /\ failed_count' = 0
                           /\ UNCHANGED <<user_id, max_emails, unsubscribed_label_id, email_data,
                                          unsub_links, link, unsubscribed>>
  /\ UNCHANGED <<user_stats, envVars>>
  /\ UNCHANGED <<runs, work, calls, labelled, fetched, fetch_result, outcomes, stats_at_start, stats_at_msg, succeeded>>
  /\ UNCHANGED <<requested, delays, modify_calls, label_setup>>

(***************************************************************************)
(* The per-message loop of process_unsubscriptions, lines 1159-1311        *)
(***************************************************************************)
\* "continue", or the end of the loop body: on to the next message or to the summary
Continue ==
  /\ pc' = NextPc(i, Len(messages))
  /\ i' = i + 1
  /\ email_data' = NoEmail
  /\ unsub_links' = <<>>
  /\ link' = 0
  /\ unsubscribed' = FALSE

LoopFrame == UNCHANGED <<user_id, max_emails, unsubscribed_label_id, messages>>

\* Step 1, lines 1168-1185: get_email swallows a failed fetch and answers with
\* empty content and empty metadata
GetEmail ==
  /\ UNCHANGED <<lifecycle, payload, threads, oauth>>
  /\ pc = "get_email"
  /\ fetched' = Append(fetched, MessageAt(messages, i))
  /\ stats_at_msg' = user_stats[user_id]
  /\ requested' = <<>>
  /\ UNCHANGED <<delays, modify_calls, label_setup, auth_failure>>
  /\ \E fetch \in {"ok", "none", "raise"} :
       LET data == get_email(fetch, MailStore[MessageAt(messages, i)])
           metadata == data.metadata
           sender_info == Get(metadata, "sender_name", "Unknown sender")
       IN  /\ fetch_result' = fetch
           /\ IF data.content = <<>>
              THEN LET w1 == add_activity(World, user_id, "warning",
                                          Text("No content found in email", i, Len(messages), sender_info), metadata)
                       stats1 == [user_stats EXCEPT ![user_id] = IncTotalScanned(@)]
                   IN  /\ user_activities' = w1.user_activities
                       /\ now' = w1.now
                       /\ user_stats' = stats1
                       /\ db' = save_stats_to_db(w1.db, stats1, user_id)
                       /\ added' = Added(added, user_id, w1)
                       /\ emitted' = Emit(emitted, "warning", "No content found in email", i)
                       /\ failed_count' = failed_count + 1
                       /\ outcomes' = Append(outcomes, "NoContentFound")
                       /\ Continue
              ELSE /\ email_data' = data
                   /\ pc' = "extract_links"
                   /\ UNCHANGED <<memVars, added, emitted, outcomes, failed_count, i, unsub_links,
                                  link, unsubscribed>>
  /\ LoopFrame
  /\ UNCHANGED <<envVars, successful_count, runs, work, calls, labelled, stats_at_start, result, batch, succeeded>>

\* Step 2, lines 1187-1208
ExtractLinks ==
  /\ UNCHANGED <<lifecycle, payload, threads, oauth>>
  /\ pc = "extract_links"
  /\ LET metadata == email_data.metadata
         sender_info == Get(metadata, "sender_name", "Unknown sender")
         links == extract_unsub_links(email_data.content)
     IN  IF links = <<>>
         THEN LET w1 == add_activity(World, user_id, "warning",
                                     Text("No unsubscribe links found in email", i, Len(messages), sender_info), metadata)
                  stats1 == [user_stats EXCEPT ![user_id] = IncTotalScanned(@)]
              IN  /\ user_activities' = w1.user_activities
                  /\ now' = w1.now
                  /\ user_stats' = stats1
                  /\ db' = save_stats_to_db(w1.db, stats1, user_id)
                  /\ added' = Added(added, user_id, w1)
                  /\ emitted' = Emit(emitted, "warning", "No unsubscribe links found in email", i)
                  /\ failed_count' = failed_count + 1
                  /\ outcomes' = Append(outcomes, "NoLinksFound")
                  /\ Continue
         ELSE /\ unsub_links' = links
              /\ link' = 1
              /\ pc' = "execute"
              /\ UNCHANGED <<memVars, added, emitted, outcomes, failed_count, i, email_data, unsubscribed>>
  /\ LoopFrame
  /\ UNCHANGED <<envVars, successful_count, runs, work, calls, labelled, fetched, fetch_result, stats_at_start,
                 stats_at_msg, result, batch, succeeded, traceVars>>

\* slip: the break after the first link that worked is missing
LinkLoopNoBreak(ok, k, n) == IF k < n THEN "next" ELSE "done"

\* "for link in unsub_links: if execute_unsub(link): ... break": what the loop
\* does after the k-th of n links answered ok
LinkLoop(ok, k, n) == IF ok THEN "break" ELSE IF k < n THEN "next" ELSE "done"

\* Step 3, lines 1210-1216: one request to the link at hand
ExecuteUnsub ==
  /\ UNCHANGED <<lifecycle, payload, threads, oauth>>
  /\ pc = "execute"
  /\ \E status \in HttpResults :
       LET ok == execute_unsub(status)
           todo == LinkLoop(ok, link, Len(unsub_links))
       IN  /\ requested' = Append(requested, [href |-> unsub_links[link], ok |-> ok])
           /\ unsubscribed' = (unsubscribed \/ ok)
           /\ link' = IF todo = "next" THEN link + 1 ELSE link
           /\ pc' = IF todo = "next" THEN "execute" ELSE "update_scanned"
  /\ LoopFrame
  /\ UNCHANGED <<memVars, envVars, i, email_data, unsub_links, successful_count, failed_count, histVars>>
  /\ UNCHANGED <<delays, modify_calls, label_setup, auth_failure>>

\* slip: the else branch of "if unsubscribed" is missing, a failed message is not reported
AfterScannedSilent(done) == IF done THEN "inc_unsubscribed" ELSE "sleep"

\* "if unsubscribed: ... else: ...", lines 1234 and 1276
AfterScanned(done) == IF done THEN "inc_unsubscribed" ELSE "report"

\* Step 4, lines 1225-1232, and the catch-all of lines 1283-1311 when the
\* update of the stats raises
UpdateScanned ==
  /\ UNCHANGED <<lifecycle, payload, threads, oauth>>
  /\ pc = "update_scanned"
  /\ \E stats_error \in BOOLEAN :
       IF stats_error
       THEN LET metadata_info == email_data.metadata
                sender_desc == Get(metadata_info, "sender_name", "")
                w1 == IF sender_desc # ""
                      THEN add_activity(World, user_id, "error",
                                        Text("Unexpected error for email", i, Len(messages), sender_desc), metadata_info)
                      ELSE add_activity(World, user_id, "error",
                                        Text("Unexpected error for email", i, Len(messages), ""), EmptyDict)
            IN  /\ SetWorld(w1)
                /\ user_stats' = user_stats
                /\ added' = Added(added, user_id, w1)
                /\ emitted' = Emit(emitted, "error", "Unexpected error for email", i)
                /\ failed_count' = failed_count + 1
                /\ outcomes' = Append(outcomes, "UnexpectedError")
                /\ Continue
       ELSE LET stats1 == [user_stats EXCEPT ![user_id] = IncTotalScanned(@)]
            IN  /\ user_stats' = stats1
                /\ db' = save_stats_to_db(db, stats1, user_id)
                /\ pc' = AfterScanned(unsubscribed)
                /\ UNCHANGED <<user_activities, now, added, emitted, outcomes, failed_count, i,
                               email_data, unsub_links, link, unsubscribed>>
  /\ LoopFrame
  /\ UNCHANGED <<envVars, successful_count, runs, work, calls, labelled, fetched, fetch_result, stats_at_start,
                 stats_at_msg, result, batch, succeeded, traceVars>>

\* line 1236
IncUnsubscribed ==
  /\ UNCHANGED <<lifecycle, payload, threads, oauth>>
  /\ pc = "inc_unsubscribed"
  /\ user_stats' = [user_stats EXCEPT ![user_id] = IncTotalUnsubscribed(@)]
  /\ pc' = "update_unsub_stats"
  /\ UNCHANGED <<user_activities, db, now, envVars, localVars, histVars, traceVars>>

\* slip: the modify call is made whether or not the label exists
NeedsLabelAlways(label_id) == TRUE

\* line 1262: "if unsubscribed_label_id:"
NeedsLabel(label_id) == label_id # ""

\* lines 1237-1255
UpdateUnsubStats ==
  /\ UNCHANGED <<lifecycle, payload, threads, oauth>>
  /\ pc = "update_unsub_stats"
  /\ LET stats1 == [user_stats EXCEPT ![user_id] = TrackDomain(IncTimeSaved(@), email_data.metadata)]
     IN  /\ user_stats' = stats1
         /\ db' = save_stats_to_db(db, stats1, user_id)
  /\ pc' = IF NeedsLabel(unsubscribed_label_id) THEN "label" ELSE "report"
  /\ UNCHANGED <<user_activities, now, envVars, localVars, histVars, traceVars>>

\* Step 5, lines 1261-1272: the label call may fail, which is only logged
LabelEmail ==
  /\ UNCHANGED <<lifecycle, payload, threads, oauth>>
  /\ pc = "label"
  /\ \E modified \in BOOLEAN :
       /\ labelled' = IF modified THEN labelled \cup {MessageAt(messages, i)} ELSE labelled
       /\ modify_calls' = Append(modify_calls, [id |-> MessageAt(messages, i), ok |-> modified])
  /\ pc' = "report"
  /\ UNCHANGED <<memVars, envVars, localVars>>
  /\ UNCHANGED <<requested, delays, label_setup, auth_failure>>
  /\ UNCHANGED <<runs, work, calls, added, emitted, fetched, fetch_result, outcomes, stats_at_start,
                 stats_at_msg, result, batch, succeeded>>

\* lines 1274-1278
Report ==
  /\ UNCHANGED <<lifecycle, payload, threads, oauth>>
  /\ pc = "report"
  /\ LET metadata == email_data.metadata
         sender_info == Get(metadata, "sender_name", "Unknown sender")
         text == IF unsubscribed THEN "Successfully unsubscribed from" ELSE "Failed to unsubscribe from"
         type == IF unsubscribed THEN "success" ELSE "error"
         w1 == add_activity(World, user_id, type,
                            [Text(text, 0, 0, sender_info) EXCEPT !.email = Get(metadata, "sender_email", "")],
                            metadata)
     IN  /\ SetWorld(w1)
         /\ added' = Added(added, user_id, w1)
         /\ emitted' = Emit(emitted, type, text, i)
         /\ successful_count' = IF unsubscribed THEN successful_count + 1 ELSE successful_count
         /\ failed_count' = IF unsubscribed THEN failed_count ELSE failed_count + 1
         /\ outcomes' = Append(outcomes, IF unsubscribed THEN "Unsubscribed" ELSE "ExecutionFailed")
         /\ succeeded' = IF unsubscribed
                         THEN CountSucceeded(succeeded, user_id, Get(metadata, "domain", "unknown"))
                         ELSE succeeded
  /\ pc' = "sleep"
  /\ UNCHANGED <<user_stats, envVars, user_id, max_emails, unsubscribed_label_id, messages, i,
                 email_data, unsub_links, link, unsubscribed>>
  /\ UNCHANGED <<runs, work, calls, labelled, fetched, fetch_result, stats_at_start, stats_at_msg, result, batch>>
  /\ UNCHANGED traceVars

\* line 1281: time.sleep(2)
Sleep ==
  /\ UNCHANGED <<lifecycle, payload, threads, oauth>>
  /\ pc = "sleep"
  /\ delays' = delays + 1
  /\ UNCHANGED <<requested, modify_calls, label_setup, auth_failure>>
  /\ Continue
  /\ LoopFrame
  /\ UNCHANGED <<memVars, envVars, successful_count, failed_count, histVars>>

\* lines 1313-1315, then start_unsubscription answers with success
Summary ==
  /\ UNCHANGED <<lifecycle, payload, threads, oauth>>
  /\ pc = "summary"
  /\ LET total_processed == successful_count + failed_count
         w1 == add_activity(World, user_id, "success",
                            [Text("Process completed", total_processed, 0, "") EXCEPT
                               !.ok = successful_count, !.failed = failed_count],
                            EmptyDict)
     IN  /\ SetWorld(w1)
         /\ added' = Added(added, user_id, w1)
         /\ emitted' = Emit(emitted, "success", "Process completed", 0)
  /\ pc' = "idle"
  /\ result' = "returned"
  /\ fetch_result' = ""
  /\ ResetLocals
  /\ UNCHANGED <<user_stats, envVars>>
  /\ UNCHANGED <<runs, work, calls, labelled, fetched, outcomes, stats_at_start, stats_at_msg, batch, succeeded>>
  /\ UNCHANGED traceVars

Next ==
  \/ \E u \in Users : Login(u)
  \/ \E u \in Users : StartUnsubscription(u)
  \/ SetupLabels
  \/ Search
  \/ GetEmail
  \/ ExtractLinks
  \/ ExecuteUnsub
  \/ UpdateScanned
  \/ IncUnsubscribed
  \/ UpdateUnsubStats
  \/ LabelEmail
  \/ Report
  \/ Sleep
  \/ Summary

Spec == Init /\ [][Next]_vars

\* the steps of a request being served: the handler runs them one after the
\* other on its own thread (app.py 711-712), and each of them returns: the
\* request of execute_unsub has a timeout (line 1517), the delay is two
\* seconds (line 1281)
BatchStep ==
  \/ SetupLabels
  \/ Search
  \/ GetEmail
  \/ ExtractLinks
  \/ ExecuteUnsub
  \/ UpdateScanned
  \/ IncUnsubscribed
  \/ UpdateUnsubStats
  \/ LabelEmail
  \/ Report
  \/ Sleep
  \/ Summary

\* the first request of a user
FirstRequest(u) == runs = 0 /\ StartUnsubscription(u)

NextLive ==
  \/ \E u \in Users : Login(u)
  \/ \E u \in Users : FirstRequest(u)
  \/ BatchStep

SpecLive == Init /\ [][NextLive]_vars /\ WF_vars(BatchStep)

(***************************************************************************)
(* The batch with a store that stops taking writes: from then on            *)
(* get_connection raises, and every save_* method logs and returns False    *)
(***************************************************************************)
StoreFails ==
  /\ UNCHANGED <<lifecycle, payload, threads, oauth>>
  /\ db.up
  /\ pc \in {"idle", "inc_unsubscribed"}
  /\ db' = [db EXCEPT !.up = FALSE]
  /\ UNCHANGED <<user_stats, user_activities, now, envVars, pc, localVars, histVars, traceVars>>

NextFaulty ==
  \/ Next
  \/ StoreFails

SpecFaulty == Init /\ [][NextFaulty]_vars

(***************************************************************************)
(* The endpoints that hand the stats to the client.  A Python set and a    *)
(* Python list are told apart by a tag; jsonify renders lists, dicts,      *)
(* strings and numbers and raises TypeError on a set.                      *)
(***************************************************************************)
PySet(items) == [py |-> "set", items |-> items]
PyList(items) == [py |-> "list", items |-> items]

\* the stats of a user as the object held in user_stats: the emails of a
\* domain are a set (app.py 1246, database.py 213-214)
StatsObject(stats) ==
  [stats EXCEPT !.domains_unsubscribed =
     [domain \in DOMAIN @ |-> [@[domain] EXCEPT !.emails = PySet(@)]]]

\* get_stats without a user: the default dict has no domains
DefaultStatsObject == [total_scanned |-> 0, total_unsubscribed |-> 0, time_saved |-> 0]

HasSet(object) ==
  /\ "domains_unsubscribed" \in DOMAIN object
  /\ \E domain \in DOMAIN object.domains_unsubscribed :
       object.domains_unsubscribed[domain].emails.py = "set"

jsonify(body, serializable) ==
  IF serializable THEN [status |-> 200, body |-> body]
  ELSE [status |-> 500, body |-> "TypeError: Object of type set is not JSON serializable"]

\* GET /api/stats
get_stats(stats_map, u) ==
  LET object == IF u \in DOMAIN stats_map THEN StatsObject(stats_map[u]) ELSE DefaultStatsObject
  IN  jsonify(object, ~HasSet(object))

\* GET /api/unsubscribe/status
get_unsubscription_status(stats_map, activities_map, u) ==
  LET object == IF u \in DOMAIN stats_map THEN StatsObject(stats_map[u]) ELSE EmptyDict
  IN  jsonify([stats |-> object, activities |-> Get(activities_map, u, <<>>)], ~HasSet(object))

\* GET /api/unsubscribed-services: list(data.get("emails", [])) for every domain
get_unsubscribed_services(stats_map, u) ==
  LET domains_data == IF u \in DOMAIN stats_map THEN stats_map[u].domains_unsubscribed ELSE EmptyDict
      services == {[domain |-> domain,
                    sender_name |-> domains_data[domain].sender_name,
                    emails |-> PyList(ListOf(domains_data[domain].emails)),
                    count |-> domains_data[domain].count] : domain \in DOMAIN domains_data}
  IN  jsonify(services, \A service \in services : service.emails.py = "list")

(***************************************************************************)
(* The life of the process: requests, restarts of the process between      *)
(* requests (the module-level load of lines 153-173) and erasure of a      *)
(* user's rows by delete_user_data                                         *)
(***************************************************************************)
\* lines 153-173: user_stats and user_activities start empty and are updated
\* with what load_user_stats and load_user_activities return, which is {} when
\* the store cannot be read at that moment (database.py 229-231, 273-275);
\* the tokens live with the clients
Restart ==
  /\ pc = "idle"
  /\ ~lifecycle.restarted
  /\ \E readable \in BOOLEAN :
       LET at_startup == [db EXCEPT !.up = readable]
       IN  /\ user_stats' = load_user_stats(at_startup)
           /\ user_activities' = load_user_activities(at_startup)
  /\ lifecycle' = [lifecycle EXCEPT !.restarted = TRUE]
  /\ UNCHANGED <<db, now, envVars, pc, localVars, histVars, traceVars, payload, threads, oauth>>

\* delete_user_data: the rows of the user leave every table
delete_user_data(d, uid) ==
  IF ~d.up THEN d
  ELSE [d EXCEPT
          !.users = @ \ {uid},
          !.user_stats = [u \in DOMAIN @ \ {uid} |-> @[u]],
          !.domains_unsubscribed = [key \in {x \in DOMAIN @ : x[1] # uid} |-> @[key]],
          !.user_activities = SelectSeq(@, LAMBDA r : r.user_id # uid)]

DeleteUserData(u) ==
  /\ pc = "idle"
  /\ u \in db.users
  /\ u \notin lifecycle.erased
  /\ db' = delete_user_data(db, u)
  /\ lifecycle' = [lifecycle EXCEPT !.erased = @ \cup {u}]
  /\ UNCHANGED <<user_stats, user_activities, now, envVars, pc, localVars, histVars, traceVars, payload, threads, oauth>>

NextLifecycle ==
  \/ Next
  \/ Restart
  \/ \E u \in Users : DeleteUserData(u)

\* the process starts as in Init, with one of two listings in the mailbox
InitLifecycle ==
  /\ Init
  /\ mailbox \in {<<"m1", "m2", "m3">>, <<"m4", "m5", "m1">>}

SpecLifecycle == InitLifecycle /\ [][NextLifecycle]_vars

(***************************************************************************)
(* The activity log on its own: add_activity called by any handler, on a   *)
(* process whose lists were loaded from the store at startup               *)
(***************************************************************************)
ActivityTypes == {"info", "warning", "success", "error"}

PreloadSizes == {0, ActivityLimit - 2}

\* the k activities a user had before the restart, newest first
Preloaded(k) ==
  [j \in 1..k |-> Activity("info", Text("Earlier activity", k - j + 1, 0, ""), k - j + 1, EmptyDict)]

PreloadedRows(u, k) ==
  [j \in 1..k |-> [id |-> j, user_id |-> u, type |-> "info",
                   message |-> Text("Earlier activity", j, 0, ""),
                   metadata |-> MetadataJson(EmptyDict), timestamp |-> j]]

InitActivity ==
  \E k \in PreloadSizes, u \in Users :
    /\ user_stats = IF k = 0 THEN EmptyDict ELSE Put(EmptyDict, u, ZeroStats)
    /\ user_activities = IF k = 0 THEN EmptyDict ELSE Put(EmptyDict, u, Preloaded(k))
    /\ db = IF k = 0 THEN EmptyDb(TRUE)
            ELSE [ensure_user_exists(EmptyDb(TRUE), u) EXCEPT
                    !.user_activities = PreloadedRows(u, k), !.next_id = k + 1]
    /\ now = k
    /\ tokens = IF k = 0 THEN {} ELSE {u}
    /\ mailbox = <<>>
    /\ labelled = {}
    /\ pc = "idle"
    /\ user_id = ""
    /\ max_emails = 0
    /\ unsubscribed_label_id = ""
    /\ messages = <<>>
    /\ i = 0
    /\ email_data = NoEmail
    /\ unsub_links = <<>>
    /\ link = 0
    /\ unsubscribed = FALSE
    /\ successful_count = 0
    /\ failed_count = 0
    /\ runs = 0
    /\ work = 0
    /\ calls = 0
    /\ added = [v \in Users |-> IF v = u THEN [j \in 1..k |-> Preloaded(k)[k - j + 1]] ELSE <<>>]
    /\ emitted = <<>>
    /\ fetched = <<>>
    /\ fetch_result = ""
    /\ outcomes = <<>>
    /\ stats_at_start = ZeroStats
    /\ stats_at_msg = ZeroStats
    /\ result = "none"
    /\ batch = [user |-> "", found |-> <<>>]
    /\ succeeded = [v \in Users |-> EmptyDict]
    /\ requested = <<>>
    /\ delays = 0
    /\ modify_calls = <<>>
    /\ label_setup = "none"
    /\ auth_failure = "none"
    /\ lifecycle = NoLifecycle
    /\ threads = NoThreads
    /\ oauth = NoOauth
    /\ payload = NoPayload

\* one call add_activity(user_id, activity_type, message, metadata)
AddActivity(u, type, metadata) ==
  /\ UNCHANGED <<lifecycle, payload, threads, oauth>>
  /\ pc = "idle"
  /\ calls < MaxCalls
  /\ calls' = calls + 1
  /\ LET w1 == add_activity(World, u, type, Text("Activity", calls + 1, 0, ""), metadata)
     IN  /\ SetWorld(w1)
         /\ added' = Added(added, u, w1)
  /\ UNCHANGED <<user_stats, envVars, pc, localVars, traceVars>>
  /\ UNCHANGED <<runs, work, emitted, labelled, fetched, fetch_result, outcomes, stats_at_start,
                 stats_at_msg, result, batch, succeeded>>

NextActivity ==
  \E u \in Users, type \in ActivityTypes, metadata \in {EmptyDict, extract_email_metadata(MailStore["m1"])} :
    AddActivity(u, type, metadata)

SpecActivity == InitActivity /\ [][NextActivity]_vars

(***************************************************************************)
(* get_email on the payloads of a family of MIME trees: every tree of up   *)
(* to MaxLeaves leaves whose containers list two parts or more, a          *)
(* multipart with one part, and the empty payload.  The k-th leaf in       *)
(* listed order carries, if it has inline data at all, either the empty    *)
(* string or a text of its own.                                            *)
(***************************************************************************)
LeafText == <<"first", "second", "third", "fourth", "fifth", "sixth">>

\* the leaves a tree can have in k-th place: HTML and plain text with inline
\* data, with empty data, or without data (a body kept as an attachment),
\* and an image
LeavesAt(k) ==
  { Leaf("text/html", Body(<<P(LeafText[k])>>)),
    Leaf("text/html", Body(<<>>)),
    Leaf("text/html", NoBody),
    Leaf("text/plain", Body(<<P(LeafText[k])>>)),
    Leaf("text/plain", NoBody),
    Leaf("image/png", Body(<<P(LeafText[k])>>)) }

RECURSIVE TreesOf(_, _)
RECURSIVE ForestsOf(_, _)
RECURSIVE SplitsOf(_, _)

\* the sequences of two trees or more whose leaves are the n leaves from k on
SplitsOf(n, k) ==
  UNION {{<<t>> \o f : t \in TreesOf(j, k), f \in ForestsOf(n - j, k + j)} : j \in 1..(n - 1)}

\* the sequences of one tree or more whose leaves are the n leaves from k on
ForestsOf(n, k) == {<<t>> : t \in TreesOf(n, k)} \cup SplitsOf(n, k)

\* the trees whose leaves are the n leaves from k on
TreesOf(n, k) ==
  IF n = 1 THEN LeavesAt(k) ELSE {Multi(f) : f \in SplitsOf(n, k)}

Payloads ==
  UNION {TreesOf(n, 1) : n \in 1..MaxLeaves}
    \cup {Multi(<<leaf>>) : leaf \in LeavesAt(1)}
    \cup {NoPayload}

\* no user, no mailbox: only the payload of the message varies
InitMime ==
  /\ user_stats = EmptyDict
  /\ user_activities = EmptyDict
  /\ db = EmptyDb(TRUE)
  /\ now = 0
  /\ tokens = {}
  /\ mailbox = <<>>
  /\ labelled = {}
  /\ pc = "idle"
  /\ user_id = ""
  /\ max_emails = 0
  /\ unsubscribed_label_id = ""
  /\ messages = <<>>
  /\ i = 0
  /\ email_data = NoEmail
  /\ unsub_links = <<>>
  /\ link = 0
  /\ unsubscribed = FALSE
  /\ successful_count = 0
  /\ failed_count = 0
  /\ runs = 0
  /\ work = 0
  /\ calls = 0
  /\ added = [u \in Users |-> <<>>]
  /\ emitted = <<>>
  /\ fetched = <<>>
  /\ fetch_result = ""
  /\ outcomes = <<>>
  /\ stats_at_start = ZeroStats
  /\ stats_at_msg = ZeroStats
  /\ result = "none"
  /\ batch = [user |-> "", found |-> <<>>]
  /\ succeeded = [u \in Users |-> EmptyDict]
  /\ requested = <<>>
  /\ delays = 0
  /\ modify_calls = <<>>
  /\ label_setup = "none"
  /\ auth_failure = "none"
  /\ lifecycle = NoLifecycle
  /\ threads = NoThreads
  /\ oauth = NoOauth
  /\ payload \in Payloads

\* one call get_email(service, msg_id) whose fetch answers with the message
ExtractContent ==
  /\ pc = "idle"
  /\ calls < MaxCalls
  /\ calls' = calls + 1
  /\ email_data' = get_email("ok", Message(NoFrom, "", payload))
  /\ UNCHANGED <<memVars, envVars, pc, user_id, max_emails, unsubscribed_label_id, messages, i,
                 unsub_links, link, unsubscribed, successful_count, failed_count>>
  /\ UNCHANGED <<runs, work, added, emitted, labelled, fetched, fetch_result, outcomes, stats_at_start,
                 stats_at_msg, result, batch, succeeded, traceVars, lifecycle, payload, threads, oauth>>

NextMime == ExtractContent

SpecMime == InitMime /\ [][NextMime]_vars

(***************************************************************************)
(* extract_unsub_links on the bodies made of up to MaxAnchors elements:    *)
(* anchors whose text and href match the pattern or not, with absolute,    *)
(* relative, mailto and empty hrefs                                        *)
(***************************************************************************)
AnchorTexts == {"Unsubscribe", "Manage email preferences", "Manage preferences", "OPT OUT", "Shop now"}

AnchorHrefs ==
  {"https://x.com/unsubscribe", "https://x.com/other", "http://x.com/shop", "/relative",
   "mailto:list@x.com?subject=unsubscribe", ""}

Elements == {A(text, href) : text \in AnchorTexts, href \in AnchorHrefs} \cup {P("Hello")}

HtmlBodies == UNION {[1..n -> Elements] : n \in 0..MaxAnchors}

InitLinks ==
  /\ user_stats = EmptyDict
  /\ user_activities = EmptyDict
  /\ db = EmptyDb(TRUE)
  /\ now = 0
  /\ tokens = {}
  /\ mailbox = <<>>
  /\ labelled = {}
  /\ pc = "idle"
  /\ user_id = ""
  /\ max_emails = 0
  /\ unsubscribed_label_id = ""
  /\ messages = <<>>
  /\ i = 0
  /\ \E html \in HtmlBodies : email_data = [content |-> html, metadata |-> DefaultMetadata]
  /\ unsub_links = <<>>
  /\ link = 0
  /\ unsubscribed = FALSE
  /\ successful_count = 0
  /\ failed_count = 0
  /\ runs = 0
  /\ work = 0
  /\ calls = 0
  /\ added = [u \in Users |-> <<>>]
  /\ emitted = <<>>
  /\ fetched = <<>>
  /\ fetch_result = ""
  /\ outcomes = <<>>
  /\ stats_at_start = ZeroStats
  /\ stats_at_msg = ZeroStats
  /\ result = "none"
  /\ batch = [user |-> "", found |-> <<>>]
  /\ succeeded = [u \in Users |-> EmptyDict]
  /\ requested = <<>>
  /\ delays = 0
  /\ modify_calls = <<>>
  /\ label_setup = "none"
  /\ auth_failure = "none"
  /\ lifecycle = NoLifecycle
  /\ threads = NoThreads
  /\ oauth = NoOauth
  /\ payload = NoPayload

\* one call extract_unsub_links(html)
LocateLinks ==
  /\ pc = "idle"
  /\ calls < MaxCalls
  /\ calls' = calls + 1
  /\ unsub_links' = extract_unsub_links(email_data.content)
  /\ UNCHANGED <<memVars, envVars, pc, user_id, max_emails, unsubscribed_label_id, messages, i,
                 email_data, link, unsubscribed, successful_count, failed_count>>
  /\ UNCHANGED <<runs, work, added, emitted, labelled, fetched, fetch_result, outcomes, stats_at_start,
                 stats_at_msg, result, batch, succeeded, traceVars, lifecycle, payload, threads, oauth>>

NextLinks == LocateLinks

SpecLinks == InitLinks /\ [][NextLinks]_vars

(***************************************************************************)
(* execute_unsub called again and again on a link, with the answers the    *)
(* remote site can give                                                    *)
(***************************************************************************)
\* the statuses of the batch, and three more: created, no content, server
\* error
HttpAnswers == HttpResults \cup {201, 204, 500}

ExecutorLinks == {"https://x.com/unsubscribe", "https://y.org/u", "/relative"}

InitExecutor ==
  /\ user_stats = EmptyDict
  /\ user_activities = EmptyDict
  /\ db = EmptyDb(TRUE)
  /\ now = 0
  /\ tokens = {}
  /\ mailbox = <<>>
  /\ labelled = {}
  /\ pc = "idle"
  /\ user_id = ""
  /\ max_emails = 0
  /\ unsubscribed_label_id = ""
  /\ messages = <<>>
  /\ i = 0
  /\ email_data = NoEmail
  /\ unsub_links \in {<<href>> : href \in ExecutorLinks}
  /\ link = 0
  /\ unsubscribed = FALSE
  /\ successful_count = 0
  /\ failed_count = 0
  /\ runs = 0
  /\ work = 0
  /\ calls = 0
  /\ added = [u \in Users |-> <<>>]
  /\ emitted = <<>>
  /\ fetched = <<>>
  /\ fetch_result = ""
  /\ outcomes = <<>>
  /\ stats_at_start = ZeroStats
  /\ stats_at_msg = ZeroStats
  /\ result = "none"
  /\ batch = [user |-> "", found |-> <<>>]
  /\ succeeded = [u \in Users |-> EmptyDict]
  /\ requested = <<>>
  /\ delays = 0
  /\ modify_calls = <<>>
  /\ label_setup = "none"
  /\ auth_failure = "none"
  /\ lifecycle = NoLifecycle
  /\ threads = NoThreads
  /\ oauth = NoOauth
  /\ payload = NoPayload

\* one call execute_unsub(link): one requests.get, whose answer decides
CallExecuteUnsub ==
  /\ pc = "idle"
  /\ calls < MaxCalls
  /\ calls' = calls + 1
  /\ \E status \in HttpAnswers :
       LET ok == execute_unsub(status)
       IN  /\ requested' = Append(requested, [href |-> unsub_links[1], status |-> status, ok |-> ok])
           /\ unsubscribed' = ok
  /\ UNCHANGED <<memVars, envVars, pc, user_id, max_emails, unsubscribed_label_id, messages, i,
                 email_data, unsub_links, link, successful_count, failed_count>>
  /\ UNCHANGED <<runs, work, added, emitted, labelled, fetched, fetch_result, outcomes, stats_at_start,
                 stats_at_msg, result, batch, succeeded, delays, modify_calls, label_setup,
                 auth_failure, lifecycle, payload, threads, oauth>>

NextExecutor == CallExecuteUnsub

SpecExecutor == InitExecutor /\ [][NextExecutor]_vars

(***************************************************************************)
(* get_email on messages that go wrong: the fetch raises or answers with   *)
(* nothing, or leaves of the payload carry inline data that cannot be      *)
(* decoded                                                                 *)
(***************************************************************************)
\* the leaves in k-th place: HTML and plain text, well-formed or malformed
MalformedLeavesAt(k) ==
  { Leaf("text/html", Body(<<P(LeafText[k])>>)),
    Leaf("text/html", BadBody),
    Leaf("text/plain", Body(<<P(LeafText[k])>>)),
    Leaf("text/plain", BadBody) }

\* one leaf alone, two leaves side by side or with one or both of them in a
\* nested multipart, three leaves side by side, and the empty payload
MalformedPayloads ==
  LET L(k) == MalformedLeavesAt(k)
  IN  L(1)
        \cup {Multi(<<a, b>>) : a \in L(1), b \in L(2)}
        \cup {Multi(<<Multi(<<a>>), b>>) : a \in L(1), b \in L(2)}
        \cup {Multi(<<a, Multi(<<b>>)>>) : a \in L(1), b \in L(2)}
        \cup {Multi(<<Multi(<<a, b>>)>>) : a \in L(1), b \in L(2)}
        \cup UNION {{Multi(<<a, b, c>>) : a \in L(1), b \in L(2)} : c \in L(3)}
        \cup {NoPayload}

FetchResults == {"ok", "none", "raise"}

InitMalformed ==
  /\ user_stats = EmptyDict
  /\ user_activities = EmptyDict
  /\ db = EmptyDb(TRUE)
  /\ now = 0
  /\ tokens = {}
  /\ mailbox = <<>>
  /\ labelled = {}
  /\ pc = "idle"
  /\ user_id = ""
  /\ max_emails = 0
  /\ unsubscribed_label_id = ""
  /\ messages = <<>>
  /\ i = 0
  /\ email_data = NoEmail
  /\ unsub_links = <<>>
  /\ link = 0
  /\ unsubscribed = FALSE
  /\ successful_count = 0
  /\ failed_count = 0
  /\ runs = 0
  /\ work = 0
  /\ calls = 0
  /\ added = [u \in Users |-> <<>>]
  /\ emitted = <<>>
  /\ fetched = <<>>
  /\ fetch_result = ""
  /\ outcomes = <<>>
  /\ stats_at_start = ZeroStats
  /\ stats_at_msg = ZeroStats
  /\ result = "none"
  /\ batch = [user |-> "", found |-> <<>>]
  /\ succeeded = [u \in Users |-> EmptyDict]
  /\ requested = <<>>
  /\ delays = 0
  /\ modify_calls = <<>>
  /\ label_setup = "none"
  /\ auth_failure = "none"
  /\ lifecycle = NoLifecycle
  /\ threads = NoThreads
  /\ oauth = NoOauth
  /\ payload \in MalformedPayloads

\* one call get_email(service, msg_id): messages().get answers with the
\* message, answers with nothing, or raises
FetchEmail ==
  /\ pc = "idle"
  /\ calls < MaxCalls
  /\ calls' = calls + 1
  /\ \E fetch \in FetchResults :
       /\ fetch_result' = fetch
       /\ email_data' = get_email(fetch, Message(NoFrom, "", payload))
  /\ UNCHANGED <<memVars, envVars, pc, user_id, max_emails, unsubscribed_label_id, messages, i,
                 unsub_links, link, unsubscribed, successful_count, failed_count>>
  /\ UNCHANGED <<runs, work, added, emitted, labelled, fetched, outcomes, stats_at_start,
                 stats_at_msg, result, batch, succeeded, traceVars, lifecycle, payload, threads, oauth>>

NextMalformed == FetchEmail

SpecMalformed == InitMalformed /\ [][NextMalformed]_vars

(***************************************************************************)
(* Two requests of one user served by two threads (app.run serves each     *)
(* request in a thread of its own, and nothing guards user_stats or        *)
(* user_activities).  A thread is followed through the statements of the   *)
(* loop body that touch the shared entries; a statement  x[k] += 1  is a   *)
(* read of x[k] into the thread's register and a later write of it.        *)
(***************************************************************************)
ThreadIds == {1, 2}
RaceUser == "u1@gmail.com"
RaceMetadata == extract_email_metadata(MailStore.m1)

\* a thread that has found n messages and stands before the first
ThreadStart(n) ==
  [at |-> "next", reg |-> 0, cut |-> <<>>, activity |-> <<>>, left |-> n, ok |-> FALSE,
   scanned |-> 0, unsub |-> 0, acts |-> 0]

InitRace ==
  /\ user_stats = Put(EmptyDict, RaceUser, ZeroStats)
  /\ \E k \in {ActivityLimit - 1} :
       /\ user_activities = Put(EmptyDict, RaceUser, Preloaded(k))
       /\ db = [ensure_user_exists(EmptyDb(TRUE), RaceUser) EXCEPT
                   !.user_activities = PreloadedRows(RaceUser, k), !.next_id = k + 1]
       /\ now = k
  /\ tokens = {RaceUser}
  /\ mailbox = <<>>
  /\ labelled = {}
  /\ pc = "idle"
  /\ user_id = ""
  /\ max_emails = 0
  /\ unsubscribed_label_id = ""
  /\ messages = <<>>
  /\ i = 0
  /\ email_data = NoEmail
  /\ unsub_links = <<>>
  /\ link = 0
  /\ unsubscribed = FALSE
  /\ successful_count = 0
  /\ failed_count = 0
  /\ runs = 0
  /\ work = 0
  /\ calls = 0
  /\ added = [u \in Users |-> <<>>]
  /\ emitted = <<>>
  /\ fetched = <<>>
  /\ fetch_result = ""
  /\ outcomes = <<>>
  /\ stats_at_start = ZeroStats
  /\ stats_at_msg = ZeroStats
  /\ result = "none"
  /\ batch = [user |-> "", found |-> <<>>]
  /\ succeeded = [u \in Users |-> EmptyDict]
  /\ requested = <<>>
  /\ delays = 0
  /\ modify_calls = <<>>
  /\ label_setup = "none"
  /\ auth_failure = "none"
  /\ lifecycle = NoLifecycle
  /\ \E n \in 1..MaxRaceMessages : threads = (1 :> ThreadStart(n)) @@ (2 :> ThreadStart(1))
  /\ oauth = NoOauth
  /\ payload = NoPayload

RaceFrame == UNCHANGED <<envVars, pc, localVars, histVars, traceVars, lifecycle, payload, oauth>>

\* Steps 1-3 of a message, which touch no shared entry: the message ends
\* unsubscribed or not
BeginMessage(t) ==
  /\ threads[t].at = "next"
  /\ threads[t].left > 0
  /\ \E ok \in BOOLEAN : threads' = [threads EXCEPT ![t].ok = ok, ![t].at = "read_scanned"]
  /\ UNCHANGED memVars
  /\ RaceFrame

\* line 1227, user_stats[user_id]["total_scanned"] += 1: the read
ReadScanned(t) ==
  /\ threads[t].at = "read_scanned"
  /\ threads' = [threads EXCEPT ![t].reg = user_stats[RaceUser].total_scanned, ![t].at = "write_scanned"]
  /\ UNCHANGED memVars
  /\ RaceFrame

\* line 1227: the write
WriteScanned(t) ==
  /\ threads[t].at = "write_scanned"
  /\ user_stats' = [user_stats EXCEPT ![RaceUser].total_scanned = threads[t].reg + 1]
  /\ threads' = [threads EXCEPT ![t].scanned = @ + 1, ![t].at = "save_scanned"]
  /\ UNCHANGED <<user_activities, db, now>>
  /\ RaceFrame

\* line 1228, save_stats_to_db(user_id)
SaveScanned(t) ==
  /\ threads[t].at = "save_scanned"
  /\ db' = save_stats_to_db(db, user_stats, RaceUser)
  /\ threads' = [threads EXCEPT ![t].at = IF threads[t].ok THEN "read_unsub" ELSE "insert"]
  /\ UNCHANGED <<user_stats, user_activities, now>>
  /\ RaceFrame

\* line 1236, user_stats[user_id]["total_unsubscribed"] += 1: the read
ReadUnsub(t) ==
  /\ threads[t].at = "read_unsub"
  /\ threads' = [threads EXCEPT ![t].reg = user_stats[RaceUser].total_unsubscribed, ![t].at = "write_unsub"]
  /\ UNCHANGED memVars
  /\ RaceFrame

\* line 1236: the write
WriteUnsub(t) ==
  /\ threads[t].at = "write_unsub"
  /\ user_stats' = [user_stats EXCEPT ![RaceUser].total_unsubscribed = threads[t].reg + 1]
  /\ threads' = [threads EXCEPT ![t].unsub = @ + 1, ![t].at = "read_time"]
  /\ UNCHANGED <<user_activities, db, now>>
  /\ RaceFrame

\* line 1237, user_stats[user_id]["time_saved"] += 2: the read
ReadTime(t) ==
  /\ threads[t].at = "read_time"
  /\ threads' = [threads EXCEPT ![t].reg = user_stats[RaceUser].time_saved, ![t].at = "write_time"]
  /\ UNCHANGED memVars
  /\ RaceFrame

\* line 1237: the write
WriteTime(t) ==
  /\ threads[t].at = "write_time"
  /\ user_stats' = [user_stats EXCEPT ![RaceUser].time_saved = threads[t].reg + MinutesPerUnsub]
  /\ threads' = [threads EXCEPT ![t].at = "track_domain"]
  /\ UNCHANGED <<user_activities, db, now>>
  /\ RaceFrame

\* lines 1240-1250 (taken as one step) and line 1255, save_stats_to_db
TrackAndSave(t) ==
  /\ threads[t].at = "track_domain"
  /\ LET stats1 == [user_stats EXCEPT ![RaceUser] = TrackDomain(@, RaceMetadata)]
     IN  /\ user_stats' = stats1
         /\ db' = save_stats_to_db(db, stats1, RaceUser)
  /\ threads' = [threads EXCEPT ![t].at = "insert"]
  /\ UNCHANGED <<user_activities, now>>
  /\ RaceFrame

\* add_activity, lines 1004-1014: the record is built and inserted at the
\* head (list.insert is one step of the interpreter); line 1017 looks at the
\* length
InsertRecord(t) ==
  /\ threads[t].at = "insert"
  /\ LET type == IF threads[t].ok THEN "success" ELSE "error"
         activity == Activity(type, Text("Message of thread", t, threads[t].left, ""), now + 1, RaceMetadata)
         inserted == <<activity>> \o user_activities[RaceUser]
     IN  /\ user_activities' = [user_activities EXCEPT ![RaceUser] = inserted]
         /\ threads' = [threads EXCEPT ![t].activity = activity, ![t].acts = @ + 1,
                                       ![t].at = IF Len(inserted) > ActivityLimit THEN "read_cut"
                                                 ELSE "save_activity"]
  /\ now' = now + 1
  /\ UNCHANGED <<user_stats, db>>
  /\ RaceFrame

\* line 1018, user_activities[user_id] = user_activities[user_id][:50]: the
\* slice is taken
ReadCut(t) ==
  /\ threads[t].at = "read_cut"
  /\ threads' = [threads EXCEPT ![t].cut = SubSeq(user_activities[RaceUser], 1, ActivityLimit),
                                ![t].at = "write_cut"]
  /\ UNCHANGED memVars
  /\ RaceFrame

\* line 1018: the slice is stored
WriteCut(t) ==
  /\ threads[t].at = "write_cut"
  /\ user_activities' = [user_activities EXCEPT ![RaceUser] = threads[t].cut]
  /\ threads' = [threads EXCEPT ![t].cut = <<>>, ![t].at = "save_activity"]
  /\ UNCHANGED <<user_stats, db, now>>
  /\ RaceFrame

\* line 1021, save_activity_to_db, and the end of the iteration
SaveRecord(t) ==
  /\ threads[t].at = "save_activity"
  /\ db' = save_activity_to_db(db, RaceUser, threads[t].activity)
  /\ threads' = [threads EXCEPT ![t].left = @ - 1, ![t].reg = 0, ![t].activity = <<>>,
                                ![t].at = IF threads[t].left = 1 THEN "done" ELSE "next"]
  /\ UNCHANGED <<user_stats, user_activities, now>>
  /\ RaceFrame

NextRace ==
  \E t \in ThreadIds :
    \/ BeginMessage(t) \/ ReadScanned(t) \/ WriteScanned(t) \/ SaveScanned(t)
    \/ ReadUnsub(t) \/ WriteUnsub(t) \/ ReadTime(t) \/ WriteTime(t) \/ TrackAndSave(t)
    \/ InsertRecord(t) \/ ReadCut(t) \/ WriteCut(t) \/ SaveRecord(t)

SpecRace == InitRace /\ [][NextRace]_vars

(***************************************************************************)
(* add_activity when datetime.now() answers twice with the same value.     *)
(* ORDER BY timestamp DESC says nothing about rows of equal timestamp: the *)
(* query lists them in the order they were inserted (what SQLite does on   *)
(* this table) or in the opposite one.                                     *)
(***************************************************************************)
TieBreaks == {"inserted first", "inserted last"}

\* row a comes before row b under ORDER BY timestamp DESC
RowPrecedes(a, b, tiebreak) ==
  \/ a.timestamp > b.timestamp
  \/ /\ a.timestamp = b.timestamp
     /\ IF tiebreak = "inserted first" THEN a.id < b.id ELSE a.id > b.id

\* the place of row r among the rows of its user
RowRank(rows, r, tiebreak) ==
  1 + Cardinality({j \in 1..Len(rows) : rows[j].user_id = r.user_id /\ RowPrecedes(rows[j], r, tiebreak)})

\* DELETE ... WHERE user_id = ? AND id NOT IN (SELECT id ... ORDER BY timestamp
\* DESC LIMIT 50)
DeleteOldActivitiesTied(rows, uid, tiebreak) ==
  SelectSeq(rows, LAMBDA r : r.user_id # uid \/ RowRank(rows, r, tiebreak) <= ActivityLimit)

\* load_user_activities for one user: ORDER BY user_id, timestamp DESC, and
\* the first 50 of the user
LoadTied(d, u, tiebreak) ==
  LET rows == d.user_activities
      S == {j \in 1..Len(rows) : rows[j].user_id = u}
  IN  [k \in 1..Min(Cardinality(S), ActivityLimit) |->
         ActivityOfRow(rows[CHOOSE j \in S : RowRank(rows, rows[j], tiebreak) = k])]

\* the two oldest records of a preloaded list were written at the same time
TiedAt(record, field, tied) ==
  IF tied /\ record[field] = 1 THEN [record EXCEPT ![field] = 2] ELSE record

InitTies ==
  /\ user_stats = Put(EmptyDict, RaceUser, ZeroStats)
  /\ \E k \in {0, ActivityLimit - 1}, tied \in BOOLEAN :
       /\ user_activities = Put(EmptyDict, RaceUser, [j \in 1..k |-> TiedAt(Preloaded(k)[j], "time", tied)])
       /\ db = [ensure_user_exists(EmptyDb(TRUE), RaceUser) EXCEPT
                   !.user_activities = [j \in 1..k |-> TiedAt(PreloadedRows(RaceUser, k)[j], "timestamp", tied)],
                   !.next_id = k + 1]
       /\ now = k
  /\ tokens = {RaceUser}
  /\ mailbox = <<>>
  /\ labelled = {}
  /\ pc = "idle"
  /\ user_id = ""
  /\ max_emails = 0
  /\ unsubscribed_label_id = ""
  /\ messages = <<>>
  /\ i = 0
  /\ email_data = NoEmail
  /\ unsub_links = <<>>
  /\ link = 0
  /\ unsubscribed = FALSE
  /\ successful_count = 0
  /\ failed_count = 0
  /\ runs = 0
  /\ work = 0
  /\ calls = 0
  /\ added = [u \in Users |-> <<>>]
  /\ emitted = <<>>
  /\ fetched = <<>>
  /\ fetch_result = ""
  /\ outcomes = <<>>
  /\ stats_at_start = ZeroStats
  /\ stats_at_msg = ZeroStats
  /\ result = "none"
  /\ batch = [user |-> "", found |-> <<>>]
  /\ succeeded = [u \in Users |-> EmptyDict]
  /\ requested = <<>>
  /\ delays = 0
  /\ modify_calls = <<>>
  /\ label_setup = "none"
  /\ auth_failure = "none"
  /\ lifecycle = NoLifecycle
  /\ threads = NoThreads
  /\ oauth = NoOauth
  /\ payload = NoPayload

\* one call add_activity(user_id, type, message): the clock has moved on
\* since the last call or it has not
AddActivityTied ==
  /\ pc = "idle"
  /\ calls < MaxCalls
  /\ calls' = calls + 1
  /\ \E tick \in {0, 1}, tiebreak \in TieBreaks, type \in {"info", "error"} :
       LET activity == Activity(type, Text("Activity", calls + 1, 0, ""), now + tick, EmptyDict)
           d1 == ensure_user_exists(db, RaceUser)
           row == [id |-> d1.next_id, user_id |-> RaceUser, type |-> activity.type,
                   message |-> activity.message, metadata |-> MetadataJson(activity.metadata),
                   timestamp |-> activity.time]
       IN  /\ user_activities' = Put(user_activities, RaceUser,
                                     InsertActivity(ActivitiesOf(RaceUser), activity))
           /\ db' = [d1 EXCEPT
                       !.user_activities = DeleteOldActivitiesTied(Append(@, row), RaceUser, tiebreak),
                       !.next_id = @ + 1]
           /\ now' = now + tick
  /\ UNCHANGED <<user_stats, envVars, pc, localVars, traceVars, lifecycle, payload, threads, oauth>>
  /\ UNCHANGED <<runs, work, added, emitted, labelled, fetched, fetch_result, outcomes, stats_at_start,
                 stats_at_msg, result, batch, succeeded>>

NextTies == AddActivityTied

SpecTies == InitTies /\ [][NextTies]_vars

(***************************************************************************)
(* The OAuth state: login issues it, oauth2callback checks it.  One        *)
(* browser holds the session cookie; a callback arrives with the cookie or *)
(* without it, carrying any state or none.                                 *)
(***************************************************************************)
States == 1..MaxLogins

InitOauth ==
  /\ user_stats = EmptyDict
  /\ user_activities = EmptyDict
  /\ db = EmptyDb(TRUE)
  /\ now = 0
  /\ tokens = {}
  /\ mailbox = <<>>
  /\ labelled = {}
  /\ pc = "idle"
  /\ user_id = ""
  /\ max_emails = 0
  /\ unsubscribed_label_id = ""
  /\ messages = <<>>
  /\ i = 0
  /\ email_data = NoEmail
  /\ unsub_links = <<>>
  /\ link = 0
  /\ unsubscribed = FALSE
  /\ successful_count = 0
  /\ failed_count = 0
  /\ runs = 0
  /\ work = 0
  /\ calls = 0
  /\ added = [u \in Users |-> <<>>]
  /\ emitted = <<>>
  /\ fetched = <<>>
  /\ fetch_result = ""
  /\ outcomes = <<>>
  /\ stats_at_start = ZeroStats
  /\ stats_at_msg = ZeroStats
  /\ result = "none"
  /\ batch = [user |-> "", found |-> <<>>]
  /\ succeeded = [u \in Users |-> EmptyDict]
  /\ requested = <<>>
  /\ delays = 0
  /\ modify_calls = <<>>
  /\ label_setup = "none"
  /\ auth_failure = "none"
  /\ lifecycle = NoLifecycle
  /\ threads = NoThreads
  /\ oauth = NoOauth
  /\ payload = NoPayload

\* login, lines 365-379: flow.authorization_url draws a state never drawn
\* before; it replaces the one of the session and joins oauth_states
login ==
  /\ pc = "idle"
  /\ \E state \in States \ oauth.issued :
       oauth' = [oauth EXCEPT
                   !.session = state,
                   !.oauth_states = @ \cup {state},
                   !.issued = @ \cup {state},
                   !.superseded = @ \cup (IF oauth.session = 0 THEN {} ELSE {oauth.session})]
  /\ UNCHANGED <<memVars, envVars, pc, localVars, histVars, traceVars, lifecycle, payload, threads>>

\* the state check of oauth2callback, lines 403-437, as
\* [passed, oauth_states]
CheckState(received_state, stored_state, states) ==
  IF received_state = 0 THEN [passed |-> FALSE, oauth_states |-> states]
  ELSE IF stored_state = 0
       THEN IF received_state \in states
            THEN [passed |-> TRUE, oauth_states |-> states \ {received_state}]
            ELSE [passed |-> FALSE, oauth_states |-> states]
       ELSE IF received_state # stored_state
            THEN [passed |-> FALSE, oauth_states |-> states]
            ELSE [passed |-> TRUE, oauth_states |-> states \ {received_state}]

\* oauth2callback: the request carries received_state and the session cookie
\* or not; after the check Google's error parameter or a failed exchange
\* ends it, else the user is connected
oauth2callback(received_state, cookie) ==
  /\ pc = "idle"
  /\ LET stored_state == IF cookie THEN oauth.session ELSE 0
         check == CheckState(received_state, stored_state, oauth.oauth_states)
         known == received_state \in oauth.accepted
     IN  IF ~check.passed
         THEN /\ oauth' = oauth
              /\ UNCHANGED <<memVars, envVars, pc, localVars, histVars, traceVars, lifecycle, payload, threads>>
         ELSE /\ oauth' = [oauth EXCEPT
                             !.oauth_states = check.oauth_states,
                             !.session = IF cookie THEN 0 ELSE @,
                             !.accepted = @ \cup {received_state},
                             !.late = IF known \/ received_state \in oauth.superseded
                                      THEN @ \cup {received_state} ELSE @,
                             !.foreign = IF received_state \in oauth.issued THEN @
                                         ELSE @ \cup {received_state}]
              /\ \E exchanged \in BOOLEAN :
                   IF exchanged
                   THEN \E u \in Users : Connected(u)
                   ELSE UNCHANGED <<memVars, envVars, pc, localVars, histVars, traceVars, lifecycle,
                                    payload, threads>>

NextOauth ==
  \/ login
  \/ \E received_state \in {0} \cup States, cookie \in BOOLEAN : oauth2callback(received_state, cookie)

SpecOauth == InitOauth /\ [][NextOauth]_vars

(***************************************************************************)
(* extract_email_metadata on From headers of every form                    *)
(***************************************************************************)
\* the last character of the domains of the fixtures, and what precedes it
DomainInit == ("X.com" :> "X.co") @@ ("y.org" :> "y.or") @@ ("z.net" :> "z.ne")
DomainLast == ("X.com" :> "m") @@ ("y.org" :> "g") @@ ("z.net" :> "t")

FromHeaders ==
  {From("named", d, l, dom) : d \in {"Shop", "Deals"}, l \in {"news", "info", "promo"}, dom \in DOMAIN DomainInit}
  \cup {From("angle", "", l, dom) : l \in {"news", "info", "promo"}, dom \in DOMAIN DomainInit}
  \cup {BareFrom(l, dom, l \o "@" \o DomainInit[dom], DomainLast[dom]) :
          l \in {"news", "info", "promo"}, dom \in DOMAIN DomainInit}
  \cup {NoFrom}

InitFrom ==
  /\ user_stats = EmptyDict
  /\ user_activities = EmptyDict
  /\ db = EmptyDb(TRUE)
  /\ now = 0
  /\ tokens = {}
  /\ mailbox = <<>>
  /\ labelled = {}
  /\ pc = "idle"
  /\ user_id = ""
  /\ max_emails = 0
  /\ unsubscribed_label_id = ""
  /\ messages = <<>>
  /\ i = 0
  /\ email_data = NoEmail
  /\ unsub_links = <<>>
  /\ link = 0
  /\ unsubscribed = FALSE
  /\ successful_count = 0
  /\ failed_count = 0
  /\ runs = 0
  /\ work = 0
  /\ calls = 0
  /\ added = [u \in Users |-> <<>>]
  /\ emitted = <<>>
  /\ fetched = <<>>
  /\ fetch_result = ""
  /\ outcomes = <<>>
  /\ stats_at_start = ZeroStats
  /\ stats_at_msg = ZeroStats
  /\ result = "none"
  /\ batch = [user |-> "", found |-> <<>>]
  /\ succeeded = [u \in Users |-> EmptyDict]
  /\ requested = <<>>
  /\ delays = 0
  /\ modify_calls = <<>>
  /\ label_setup = "none"
  /\ auth_failure = "none"
  /\ lifecycle = NoLifecycle
  /\ threads = NoThreads
  /\ oauth = NoOauth
  /\ payload = NoPayload

\* one call extract_email_metadata(message) on a message with the header
ExtractMetadata ==
  /\ pc = "idle"
  /\ calls < MaxCalls
  /\ calls' = calls + 1
  /\ \E from \in FromHeaders :
       email_data' = [content |-> <<>>, metadata |-> extract_email_metadata(Message(from, "", payload))]
  /\ UNCHANGED <<memVars, envVars, pc, user_id, max_emails, unsubscribed_label_id, messages, i,
                 unsub_links, link, unsubscribed, successful_count, failed_count>>
  /\ UNCHANGED <<runs, work, added, emitted, labelled, fetched, fetch_result, outcomes, stats_at_start,
                 stats_at_msg, result, batch, succeeded, traceVars, lifecycle, payload, threads, oauth>>

NextFrom == ExtractMetadata

SpecFrom == InitFrom /\ [][NextFrom]_vars

(***************************************************************************)
(* The batch of one user on a process that serves another user too: the    *)
(* process was started on a store that holds both, and only the first user *)
(* comes back                                                              *)
(***************************************************************************)
OtherUser == "u2@gmail.com"

OtherStats ==
  [total_scanned |-> 4, total_unsubscribed |-> 1, time_saved |-> 2,
   domains_unsubscribed |-> ("x.com" :> [count |-> 1, sender_name |-> "Shop", emails |-> {"news@X.com"}])]

\* the rows of the other user in user_activities, older than any row of the first user
OtherRows ==
  [j \in 1..3 |-> [id |-> j, user_id |-> OtherUser, type |-> "info",
                   message |-> Text("Other activity", j, 0, ""),
                   metadata |-> MetadataJson(EmptyDict), timestamp |-> j - 3]]

\* the other user's activities as the process holds them, newest first
OtherActivities == [j \in 1..3 |-> ActivityOfRow(OtherRows[4 - j])]

ShiftedRows(u, k) == [j \in 1..k |-> [PreloadedRows(u, k)[j] EXCEPT !.id = j + 3]]

StoreOfTwo(u, k) ==
  [save_single_user_stats(ensure_user_exists(EmptyDb(TRUE), u), OtherUser, OtherStats) EXCEPT
     !.user_activities = OtherRows \o ShiftedRows(u, k), !.next_id = k + 4]

InitUsers ==
  \E u \in Users :
    LET k == ActivityLimit - 2
        store == StoreOfTwo(u, k)
    IN  /\ db = store
        /\ user_stats = load_user_stats(store)
        /\ user_activities = load_user_activities(store)
        /\ now = k
        /\ tokens = {OtherUser}
        /\ mailbox \in {<<"m1", "m2", "m3">>, <<"m4", "m5", "m1">>}
        /\ labelled = {}
        /\ pc = "idle"
        /\ user_id = ""
        /\ max_emails = 0
        /\ unsubscribed_label_id = ""
        /\ messages = <<>>
        /\ i = 0
        /\ email_data = NoEmail
        /\ unsub_links = <<>>
        /\ link = 0
        /\ unsubscribed = FALSE
        /\ successful_count = 0
        /\ failed_count = 0
        /\ runs = 0
        /\ work = 0
        /\ calls = 0
        /\ added = [v \in Users |-> IF v = u THEN [j \in 1..k |-> Preloaded(k)[k - j + 1]] ELSE <<>>]
        /\ emitted = <<>>
        /\ fetched = <<>>
        /\ fetch_result = ""
        /\ outcomes = <<>>
        /\ stats_at_start = ZeroStats
        /\ stats_at_msg = ZeroStats
        /\ result = "none"
        /\ batch = [user |-> "", found |-> <<>>]
        /\ succeeded = [v \in Users |-> EmptyDict]
        /\ requested = <<>>
        /\ delays = 0
        /\ modify_calls = <<>>
        /\ label_setup = "none"
        /\ auth_failure = "none"
        /\ lifecycle = NoLifecycle
        /\ threads = NoThreads
        /\ oauth = NoOauth
        /\ payload = NoPayload

SpecUsers == InitUsers /\ [][Next]_vars

(***************************************************************************)
(* save_user_stats, the bulk save of the shutdown hook (app.py 1051-1066), *)
(* on maps of one or two users and a store that knows none, one or both of *)
(* them                                                                    *)
(***************************************************************************)
StoredUsers == Users \cup {OtherUser}

StatsChoices ==
  { ZeroStats,
    OtherStats,
    [total_scanned |-> 3, total_unsubscribed |-> 2, time_saved |-> 4,
     domains_unsubscribed |->
       ("x.com" :> [count |-> 1, sender_name |-> "Shop", emails |-> {"news@X.com"}]) @@
       ("y.org" :> [count |-> 1, sender_name |-> "info", emails |-> {"info@y.org"}])] }

StatsMaps == UNION {[S -> StatsChoices] : S \in (SUBSET StoredUsers) \ {{}}}

RECURSIVE EnsureUsers(_, _)
EnsureUsers(d, todo) ==
  IF todo = {} THEN d
  ELSE LET u == CHOOSE x \in todo : TRUE IN EnsureUsers(ensure_user_exists(d, u), todo \ {u})

\* the store before the save: the users of S have their rows, with zero totals
StoresBefore == {EnsureUsers(EmptyDb(TRUE), S) : S \in SUBSET StoredUsers}

RECURSIVE SaveStatsFrom(_, _, _, _)
\* the loop "for user_id, stats in user_stats.items()" from its k-th user on.
\* The statements of the loop run on the connection opened at line 281, whose
\* transaction starts with the UPDATE of the first user and is committed
\* after the loop (line 314).  ensure_user_exists opens a connection of its
\* own (line 157, get_connection lines 35-41): from the second user on its
\* write waits for the open transaction until the timeout, raises "database
\* is locked" and ensure_user_exists returns False (lines 181-183), so no row
\* is created.  The UPDATE changes the row of a user that has one; the domain
\* rows are written in any case (foreign keys are not enforced).
SaveStatsFrom(d, stats_map, order, k) ==
  IF k > Len(order) THEN d
  ELSE LET u == order[k]
           stats == stats_map[u]
           d1 == IF k = 1 THEN ensure_user_exists(d, u) ELSE d
           d2 == [d1 EXCEPT
                    !.user_stats =
                       IF u \in DOMAIN @
                       THEN Put(@, u, [total_scanned |-> stats.total_scanned,
                                       total_unsubscribed |-> stats.total_unsubscribed,
                                       time_saved |-> stats.time_saved])
                       ELSE @,
                    !.domains_unsubscribed =
                       ReplaceDomains(@, u, stats.domains_unsubscribed, DOMAIN stats.domains_unsubscribed)]
       IN  SaveStatsFrom(d2, stats_map, order, k + 1)

\* save_user_stats: order is the order in which the dict lists its users
save_user_stats(d, stats_map, order) ==
  IF ~d.up THEN d ELSE SaveStatsFrom(d, stats_map, order, 1)

\* the dict lists user_id first
InitStoreStats ==
  /\ user_stats \in StatsMaps
  /\ user_activities = EmptyDict
  /\ db \in StoresBefore
  /\ now = 0
  /\ tokens = {}
  /\ mailbox = <<>>
  /\ labelled = {}
  /\ pc = "idle"
  /\ user_id \in DOMAIN user_stats
  /\ max_emails = 0
  /\ unsubscribed_label_id = ""
  /\ messages = <<>>
  /\ i = 0
  /\ email_data = NoEmail
  /\ unsub_links = <<>>
  /\ link = 0
  /\ unsubscribed = FALSE
  /\ successful_count = 0
  /\ failed_count = 0
  /\ runs = 0
  /\ work = 0
  /\ calls = 0
  /\ added = [u \in Users |-> <<>>]
  /\ emitted = <<>>
  /\ fetched = <<>>
  /\ fetch_result = ""
  /\ outcomes = <<>>
  /\ stats_at_start = ZeroStats
  /\ stats_at_msg = ZeroStats
  /\ result = "none"
  /\ batch = [user |-> "", found |-> <<>>]
  /\ succeeded = [u \in Users |-> EmptyDict]
  /\ requested = <<>>
  /\ delays = 0
  /\ modify_calls = <<>>
  /\ label_setup = "none"
  /\ auth_failure = "none"
  /\ lifecycle = NoLifecycle
  /\ threads = NoThreads
  /\ oauth = NoOauth
  /\ payload = NoPayload

\* one call save_user_stats(user_stats)
SaveUserStats ==
  /\ pc = "idle"
  /\ calls < MaxCalls
  /\ calls' = calls + 1
  /\ db' = save_user_stats(db, user_stats, <<user_id>> \o ListOf(DOMAIN user_stats \ {user_id}))
  /\ UNCHANGED <<user_stats, user_activities, now, envVars, pc, localVars>>
  /\ UNCHANGED <<runs, work, added, emitted, labelled, fetched, fetch_result, outcomes, stats_at_start,
                 stats_at_msg, result, batch, succeeded, traceVars, lifecycle, payload, threads, oauth>>

\* one call load_user_stats() whose result replaces the map (app.py 158-162)
LoadUserStats ==
  /\ pc = "idle"
  /\ calls >= 1
  /\ runs = 0
  /\ runs' = 1
  /\ user_stats' = load_user_stats(db)
  /\ UNCHANGED <<user_activities, db, now, envVars, pc, localVars>>
  /\ UNCHANGED <<work, calls, added, emitted, labelled, fetched, fetch_result, outcomes, stats_at_start,
                 stats_at_msg, result, batch, succeeded, traceVars, lifecycle, payload, threads, oauth>>

NextStoreStats == SaveUserStats \/ LoadUserStats

SpecStoreStats == InitStoreStats /\ [][NextStoreStats]_vars

(***************************************************************************)
(* save_user_activities, the other half of the bulk save, and the load     *)
(* that follows a restart.  The lists are as add_activity builds them:     *)
(* newest first, with the times datetime.now() gave, which two calls in a  *)
(* row can share.                                                          *)
(***************************************************************************)
Reversed(list) == [j \in 1..Len(list) |-> list[Len(list) + 1 - j]]

Newer(time) == Activity("success", Text("Unsubscribed", 2, 2, "Shop"), time, extract_email_metadata(MailStore["m1"]))
Older(time) == Activity("info", Text("Found emails", 0, 2, ""), time, EmptyDict)

\* lists of one and two activities; the times of a list never grow
ActivityLists ==
  { <<Newer(2)>>, <<Older(1)>>,
    <<Newer(2), Older(1)>>, <<Newer(2), Older(2)>>, <<Older(2), Newer(1)>>,
    <<Newer(3), Older(2), Older(1)>> }

ActivityMaps == UNION {[S -> ActivityLists] : S \in (SUBSET StoredUsers) \ {{}}}

\* a store that holds a row of an earlier save for each user
StoreWithRows ==
  LET d1 == save_single_user_activity(EmptyDb(TRUE), "u1@gmail.com", Older(0))
  IN  save_single_user_activity(d1, OtherUser, Older(0))

RECURSIVE InsertReversed(_, _, _, _)
\* "for activity in reversed(activities): INSERT ...", from the k-th activity
\* of the list down to the first
InsertReversed(d, u, activities, k) ==
  IF k = 0 THEN d
  ELSE LET activity == activities[k]
           row == [id |-> d.next_id, user_id |-> u, type |-> activity.type,
                   message |-> activity.message, metadata |-> MetadataJson(activity.metadata),
                   timestamp |-> activity.time]
       IN  InsertReversed([d EXCEPT !.user_activities = Append(@, row), !.next_id = @ + 1],
                          u, activities, k - 1)

RECURSIVE SaveActivitiesFrom(_, _, _, _)
\* the loop "for user_id, activities in user_activities.items()" from its
\* k-th user on; as in save_user_stats, ensure_user_exists succeeds for the
\* first user only, and the rows are deleted and inserted in any case
SaveActivitiesFrom(d, activities_map, order, k) ==
  IF k > Len(order) THEN d
  ELSE LET u == order[k]
           d1 == IF k = 1 THEN ensure_user_exists(d, u) ELSE d
           d2 == [d1 EXCEPT !.user_activities = SelectSeq(@, LAMBDA r : r.user_id # u)]
           d3 == InsertReversed(d2, u, activities_map[u], Len(activities_map[u]))
       IN  SaveActivitiesFrom(d3, activities_map, order, k + 1)

save_user_activities(d, activities_map, order) ==
  IF ~d.up THEN d ELSE SaveActivitiesFrom(d, activities_map, order, 1)

\* ORDER BY user_id, timestamp DESC leaves the order of rows with the same
\* timestamp open: every arrangement of the rows of a user at the positions
\* S whose timestamps never grow
NewestFirstOrders(rows, S) ==
  {order \in [1..Cardinality(S) -> S] :
     /\ \A j, k \in 1..Cardinality(S) : j # k => order[j] # order[k]
     /\ \A j \in 1..(Cardinality(S) - 1) : rows[order[j]].timestamp >= rows[order[j + 1]].timestamp}

\* the lists load_user_activities can return for a user
LoadedLists(d, u) ==
  LET rows == d.user_activities
      S == {j \in 1..Len(rows) : rows[j].user_id = u}
  IN  {[j \in 1..Min(Cardinality(S), ActivityLimit) |-> ActivityOfRow(rows[order[j]])] :
         order \in NewestFirstOrders(rows, S)}

InitStoreActivities ==
  /\ user_stats = EmptyDict
  /\ user_activities \in ActivityMaps
  /\ db \in StoresBefore \cup {StoreWithRows}
  /\ now = 0
  /\ tokens = {}
  /\ mailbox = <<>>
  /\ labelled = {}
  /\ pc = "idle"
  /\ user_id \in DOMAIN user_activities
  /\ max_emails = 0
  /\ unsubscribed_label_id = ""
  /\ messages = <<>>
  /\ i = 0
  /\ email_data = NoEmail
  /\ unsub_links = <<>>
  /\ link = 0
  /\ unsubscribed = FALSE
  /\ successful_count = 0
  /\ failed_count = 0
  /\ runs = 0
  /\ work = 0
  /\ calls = 0
  /\ added = [u \in DOMAIN user_activities |-> Reversed(user_activities[u])]
  /\ emitted = <<>>
  /\ fetched = <<>>
  /\ fetch_result = ""
  /\ outcomes = <<>>
  /\ stats_at_start = ZeroStats
  /\ stats_at_msg = ZeroStats
  /\ result = "none"
  /\ batch = [user |-> "", found |-> <<>>]
  /\ succeeded = [u \in Users |-> EmptyDict]
  /\ requested = <<>>
  /\ delays = 0
  /\ modify_calls = <<>>
  /\ label_setup = "none"
  /\ auth_failure = "none"
  /\ lifecycle = NoLifecycle
  /\ threads = NoThreads
  /\ oauth = NoOauth
  /\ payload = NoPayload

\* one call save_user_activities(user_activities)
SaveUserActivities ==
  /\ pc = "idle"
  /\ runs = 0
  /\ calls < MaxCalls
  /\ calls' = calls + 1
  /\ db' = save_user_activities(db, user_activities, <<user_id>> \o ListOf(DOMAIN user_activities \ {user_id}))
  /\ UNCHANGED <<user_stats, user_activities, now, envVars, pc, localVars>>
  /\ UNCHANGED <<runs, work, added, emitted, labelled, fetched, fetch_result, outcomes, stats_at_start,
                 stats_at_msg, result, batch, succeeded, traceVars, lifecycle, payload, threads, oauth>>

\* the process starts again: load_user_activities() fills the map (app.py 159-163)
LoadUserActivities ==
  /\ pc = "idle"
  /\ calls >= 1
  /\ runs = 0
  /\ runs' = 1
  /\ LET users == {db.user_activities[j].user_id : j \in 1..Len(db.user_activities)}
     IN  \E loaded \in [users -> UNION {LoadedLists(db, u) : u \in users}] :
           /\ \A u \in users : loaded[u] \in LoadedLists(db, u)
           /\ user_activities' = loaded
  /\ UNCHANGED <<user_stats, db, now, envVars, pc, localVars>>
  /\ UNCHANGED <<work, calls, added, emitted, labelled, fetched, fetch_result, outcomes, stats_at_start,
                 stats_at_msg, result, batch, succeeded, traceVars, lifecycle, payload, threads, oauth>>

NextStoreActivities == SaveUserActivities \/ LoadUserActivities

SpecStoreActivities == InitStoreActivities /\ [][NextStoreActivities]_vars

(***************************************************************************)
(* Properties                                                              *)
(***************************************************************************)
\* the points between two messages of a batch, and between two batches
MessageBoundary == pc \in {"idle", "labels", "search", "get_email", "sleep", "summary"}

\* the points right after a message has been dealt with
AfterMessage == pc \in {"idle", "get_email", "sleep", "summary"} /\ outcomes # <<>>

LastOutcome == outcomes[Len(outcomes)]

\* the stats of the user of the current (or last) batch
BatchStats == StatsOf(batch.user)

ScannedByMessage == BatchStats.total_scanned - stats_at_msg.total_scanned

EmittedFor(index) == {k \in 1..Len(emitted) : emitted[k].msg = index}
EmittedOfType(type) == {k \in 1..Len(emitted) : emitted[k].type = type}
SummaryCount == Cardinality({k \in 1..Len(emitted) : emitted[k].text = "Process completed"})

DomainCount(stats, d) ==
  IF d \in DOMAIN stats.domains_unsubscribed THEN stats.domains_unsubscribed[d].count ELSE 0

\* C1: in every reachable state, for every user, total_unsubscribed <= total_scanned
C1_UnsubscribedAtMostScanned ==
  \A u \in DOMAIN user_stats : user_stats[u].total_unsubscribed <= user_stats[u].total_scanned

C1_Witness ==
  /\ runs >= 2
  /\ BatchStats.total_unsubscribed >= 2
  /\ BatchStats.total_unsubscribed = BatchStats.total_scanned

\* C2: at every message boundary the stats in memory, and at every point the
\* stats in the store, have time_saved = 2 * total_unsubscribed
C2_TimeSavedTwiceUnsubscribed ==
  /\ MessageBoundary =>
       \A u \in DOMAIN user_stats : user_stats[u].time_saved = 2 * user_stats[u].total_unsubscribed
  /\ \A u \in DOMAIN db.user_stats :
       db.user_stats[u].time_saved = 2 * db.user_stats[u].total_unsubscribed

C2_Witness ==
  /\ pc = "sleep"
  /\ BatchStats.total_unsubscribed >= 2
  /\ batch.user \in DOMAIN db.user_stats
  /\ db.user_stats[batch.user].total_unsubscribed >= 2

\* C3: between messages, the count of every domain equals the number of
\* messages that ended Unsubscribed with that sender domain
C3_DomainCountIsSuccesses ==
  MessageBoundary =>
    \A u \in DOMAIN user_stats :
      \A d \in (DOMAIN user_stats[u].domains_unsubscribed \cup DOMAIN succeeded[u]) \ {""} :
        DomainCount(user_stats[u], d) = Get(succeeded[u], d, 0)

C3_Witness ==
  /\ pc = "idle"
  /\ DomainCount(BatchStats, "x.com") = 2
  /\ DomainCount(BatchStats, "y.org") = 1

\* C4: a user's activity list holds the min(n, 50) most recently added of the
\* n activities added for the user, newest first
C4_ActivityWindow ==
  \A u \in DOMAIN user_activities :
    LET n == Len(added[u])
        m == Min(n, 50)
    IN  /\ Len(user_activities[u]) = m
        /\ \A j \in 1..m : user_activities[u][j] = added[u][n - j + 1]

C4_Witness ==
  \E u \in DOMAIN user_activities : Len(added[u]) >= 52 /\ calls >= 4

\* C5: a batch over a non-empty search result visits every message of it,
\* whatever fails, returns normally and emits the summary exactly once, at its end
C5_BatchSurvivesFailures ==
  batch.found # <<>> =>
    /\ pc = "idle" => /\ result = "returned"
                      /\ fetched = batch.found
                      /\ Len(outcomes) = Len(batch.found)
                      /\ SummaryCount = 1
    /\ pc # "idle" => /\ result = "running"
                      /\ SummaryCount = 0

C5_Witness ==
  /\ pc = "idle"
  /\ Len(outcomes) = 2
  /\ outcomes[1] # "Unsubscribed"
  /\ outcomes[2] # "Unsubscribed"
  /\ outcomes[1] # outcomes[2]
  /\ SummaryCount = 1

\* C6: a message whose fetch raised gets exactly one activity, of type error
C6_FetchFailureEmitsError ==
  (fetch_result = "raise" /\ pc \in {"get_email", "summary"}) =>
    /\ Cardinality(EmittedFor(Len(fetched))) = 1
    /\ \A k \in EmittedFor(Len(fetched)) : emitted[k].type = "error"

\* C7: a batch whose search found nothing emitted exactly one warning, no
\* summary, processed no message and left the user's stats as they were
C7_EmptySearch ==
  (pc = "idle" /\ result = "returned" /\ batch.found = <<>>) =>
    /\ Cardinality(EmittedOfType("warning")) = 1
    /\ SummaryCount = 0
    /\ fetched = <<>>
    /\ outcomes = <<>>
    /\ BatchStats = stats_at_start

C7_Witness ==
  /\ pc = "idle"
  /\ result = "returned"
  /\ batch.found = <<>>
  /\ stats_at_start.total_unsubscribed >= 1
  /\ Cardinality(EmittedOfType("warning")) = 1

\* C8: a message that did not end Unsubscribed left total_unsubscribed,
\* time_saved and domains_unsubscribed as they were when it started
C8_FailureKeepsUnsubStats ==
  (AfterMessage /\ LastOutcome # "Unsubscribed") =>
    /\ BatchStats.total_unsubscribed = stats_at_msg.total_unsubscribed
    /\ BatchStats.time_saved = stats_at_msg.time_saved
    /\ BatchStats.domains_unsubscribed = stats_at_msg.domains_unsubscribed

C8_Witness ==
  /\ AfterMessage
  /\ Len(outcomes) = 2
  /\ outcomes[1] = "Unsubscribed"
  /\ outcomes[2] \in {"ExecutionFailed", "UnexpectedError"}
  /\ stats_at_msg.domains_unsubscribed # EmptyDict

\* C9: a message never adds more than one to total_scanned, and adds exactly
\* one when it ends NoContentFound, NoLinksFound, ExecutionFailed or Unsubscribed
C9_ScannedOncePerMessage ==
  /\ ScannedByMessage \in {0, 1}
  /\ (AfterMessage /\ LastOutcome \in {"NoContentFound", "NoLinksFound", "ExecutionFailed", "Unsubscribed"})
       => ScannedByMessage = 1

C9_Witness ==
  /\ AfterMessage
  /\ Len(outcomes) = 2
  /\ outcomes[1] = "Unsubscribed"
  /\ outcomes[2] = "NoLinksFound"
  /\ ScannedByMessage = 1

\* C10: the messages are fetched in the order of the search result, and a
\* message is fetched only once every message before it has its activity;
\* the body of the loop works on the message fetched last
C10_SequentialInOrder ==
  /\ Len(fetched) <= Len(batch.found)
  /\ \A j \in 1..Len(fetched) : fetched[j] = batch.found[j]
  /\ \A j \in 1..(Len(fetched) - 1) : EmittedFor(j) # {}
  /\ \A k1, k2 \in 1..Len(emitted) :
       (k1 < k2 /\ emitted[k2].msg > 0) => emitted[k1].msg <= emitted[k2].msg
  /\ pc \in {"extract_links", "execute", "update_scanned", "inc_unsubscribed",
             "update_unsub_stats", "label", "report"}
       => (i = Len(fetched) /\ EmittedFor(i) = {})

C10_Witness ==
  /\ pc = "report"
  /\ Len(fetched) = 2
  /\ fetched[1] # fetched[2]

\* the points of the loop body at which the message at hand has no activity yet
InMessage == pc \in {"extract_links", "execute", "update_scanned", "inc_unsubscribed",
                     "update_unsub_stats", "label", "report"}

\* the points from the first request of a link to the end of the loop body
LinksAtHand == pc \in {"execute", "update_scanned", "inc_unsubscribed", "update_unsub_stats",
                       "label", "report", "sleep"}

SomeRequestOk == \E k \in 1..Len(requested) : requested[k].ok

\* C11: the links of a message are requested in list order, each at most once,
\* none after the first that returned true, and the message is unsubscribed
\* exactly when a requested link returned true
C11_LinksInOrderUntilFirstSuccess ==
  /\ LinksAtHand =>
       /\ Len(requested) <= Len(unsub_links)
       /\ \A k \in 1..Len(requested) : requested[k].href = unsub_links[k]
       /\ \A k \in 1..(Len(requested) - 1) : ~requested[k].ok
       /\ unsubscribed = SomeRequestOk
       /\ pc = "execute" => (link = Len(requested) + 1 /\ ~unsubscribed)
       /\ pc # "execute" => (requested # <<>> /\ (SomeRequestOk \/ Len(requested) = Len(unsub_links)))
  /\ (AfterMessage /\ LastOutcome \in {"Unsubscribed", "ExecutionFailed"}) =>
       (LastOutcome = "Unsubscribed" <=> SomeRequestOk)
  /\ (AfterMessage /\ LastOutcome \in {"NoContentFound", "NoLinksFound"}) => requested = <<>>

C11_Witness ==
  /\ pc = "sleep"
  /\ Len(unsub_links) = 2
  /\ Len(requested) = 2
  /\ ~requested[1].ok
  /\ requested[2].ok
  /\ LastOutcome = "Unsubscribed"

\* the type of the activity that reports an outcome
OutcomeType(outcome) ==
  CASE outcome \in {"NoContentFound", "NoLinksFound"} -> "warning"
    [] outcome = "Unsubscribed" -> "success"
    [] OTHER -> "error"

\* the number of messages of the current run the loop has finished with
Finished == IF InMessage THEN Len(fetched) - 1 ELSE Len(fetched)

\* C12: every message the loop has finished with has exactly one activity, of
\* the type of its outcome, and no other message of the batch has one
C12_OneActivityPerMessage ==
  /\ Len(outcomes) = Finished
  /\ \A j \in 1..Finished :
       /\ Cardinality(EmittedFor(j)) = 1
       /\ \A k \in EmittedFor(j) : emitted[k].type = OutcomeType(outcomes[j])
  /\ \A k \in 1..Len(emitted) : emitted[k].msg <= Finished
  /\ (pc = "idle" /\ result = "returned" /\ batch.found # <<>>) => Finished = Len(batch.found)

C12_Witness ==
  /\ pc = "idle"
  /\ result = "returned"
  /\ Len(outcomes) = 3
  /\ outcomes[1] = "Unsubscribed"
  /\ outcomes[2] \in {"NoLinksFound", "NoContentFound"}
  /\ outcomes[3] \in {"ExecutionFailed", "UnexpectedError"}

Persisted(u) == load_user_stats(db)[u]

\* C14: while the store takes every write, at every message boundary the
\* stats in the store are the stats in memory, and in between they are never
\* behind the stats the message in flight started with
C14_PersistedAtMessageBoundary ==
  \A u \in DOMAIN user_stats :
    /\ u \in DOMAIN load_user_stats(db)
    /\ MessageBoundary => Persisted(u) = user_stats[u]
    /\ u = batch.user =>
         /\ Persisted(u).total_scanned >= stats_at_msg.total_scanned
         /\ Persisted(u).total_unsubscribed >= stats_at_msg.total_unsubscribed
         /\ Persisted(u).total_scanned <= user_stats[u].total_scanned
         /\ Persisted(u).total_unsubscribed <= user_stats[u].total_unsubscribed

C14_Witness ==
  /\ pc = "sleep"
  /\ Len(outcomes) = 2
  /\ LastOutcome = "Unsubscribed"
  /\ DomainCount(Persisted(batch.user), "x.com") = 2
  /\ Persisted(batch.user).domains_unsubscribed["x.com"].emails = {"news@X.com"}
  /\ Persisted(batch.user).total_unsubscribed = 2

\* C16: a run whose credentials failed (the refresh raised, or the search
\* raised) has ended at once: no message fetched, the stats as they were, no
\* summary, exactly one error activity, recorded last, and the request failed
C16_CredentialFailurePropagates ==
  auth_failure # "none" =>
    /\ pc = "idle"
    /\ result = "raised"
    /\ fetched = <<>>
    /\ outcomes = <<>>
    /\ requested = <<>>
    /\ BatchStats = stats_at_start
    /\ Persisted(batch.user) = stats_at_start
    /\ SummaryCount = 0
    /\ Cardinality(EmittedOfType("error")) = 1
    /\ emitted[Len(emitted)].text = "Error in unsubscription process"
    /\ Head(ActivitiesOf(batch.user)).type = "error"

C16_Witness ==
  /\ auth_failure = "refresh"
  /\ pc = "idle"
  /\ result = "raised"
  /\ runs = 2
  /\ stats_at_start.total_unsubscribed >= 1

\* the metadata get_email extracted from a message of the mail store
SenderOf(id) == extract_email_metadata(MailStore[id])

\* the messages of the current run that ended Unsubscribed, all and by sender domain
UnsubscribedMessages == {j \in 1..Len(outcomes) : outcomes[j] = "Unsubscribed"}
UnsubscribedOf(d) == {j \in UnsubscribedMessages : SenderOf(fetched[j]).domain = d}

EmailsOf(stats, d) ==
  IF d \in DOMAIN stats.domains_unsubscribed THEN stats.domains_unsubscribed[d].emails ELSE {}

\* C17: over a run, total_unsubscribed and the count of a domain grow by one
\* per unsubscribed message, while the emails of the domain grow as a set: by
\* the sender emails not yet in it
C17_EmailsSetIdempotent ==
  AfterMessage =>
    /\ BatchStats.total_unsubscribed =
         stats_at_start.total_unsubscribed + Cardinality(UnsubscribedMessages)
    /\ \A d \in (DOMAIN BatchStats.domains_unsubscribed \cup {SenderOf(id).domain : id \in MsgIds}) \ {""} :
         /\ DomainCount(BatchStats, d) = DomainCount(stats_at_start, d) + Cardinality(UnsubscribedOf(d))
         /\ EmailsOf(BatchStats, d) =
              EmailsOf(stats_at_start, d)
                \cup ({SenderOf(fetched[j]).sender_email : j \in UnsubscribedOf(d)} \ {""})

C17_Witness ==
  /\ pc = "idle"
  /\ fetched = <<"m3", "m1">>
  /\ outcomes = <<"Unsubscribed", "Unsubscribed">>
  /\ SenderOf("m3").sender_email = SenderOf("m1").sender_email
  /\ EmailsOf(BatchStats, "x.com") = {"news@X.com"}
  /\ DomainCount(BatchStats, "x.com") = DomainCount(stats_at_start, "x.com") + 2
  /\ BatchStats.total_unsubscribed = stats_at_start.total_unsubscribed + 2

\* the position of a message id in the messages fetched in the current run
FetchedAt(id) == CHOOSE j \in 1..Len(fetched) : fetched[j] = id

\* C15: a failed label set-up lets the run go on without any modify call; a
\* failed modify call or a failed write to the store leaves the message
\* unsubscribed: counted in total_unsubscribed and reported with a success activity
C15_SideChannelFailuresAreHarmless ==
  /\ label_setup = "failed" =>
       /\ modify_calls = <<>>
       /\ labelled = {}
       /\ auth_failure = "none" => result # "raised"
  /\ \A k \in 1..Len(modify_calls) :
       FetchedAt(modify_calls[k].id) <= Len(outcomes) =>
         outcomes[FetchedAt(modify_calls[k].id)] = "Unsubscribed"
  /\ (pc = "sleep" /\ SomeRequestOk) =>
       /\ LastOutcome = "Unsubscribed"
       /\ Head(ActivitiesOf(user_id)).type = "success"
  /\ AfterMessage =>
       /\ BatchStats.total_unsubscribed =
            stats_at_start.total_unsubscribed + Cardinality(UnsubscribedMessages)
       /\ \A j \in UnsubscribedMessages : \A k \in EmittedFor(j) : emitted[k].type = "success"
       /\ \A j \in UnsubscribedMessages : EmittedFor(j) # {}

C15_Witness ==
  /\ pc = "sleep"
  /\ ~db.up
  /\ user_id \in DOMAIN db.user_stats
  /\ db.user_stats[user_id].total_unsubscribed = 0
  /\ modify_calls # <<>>
  /\ ~modify_calls[Len(modify_calls)].ok
  /\ modify_calls[Len(modify_calls)].id = fetched[Len(fetched)]
  /\ LastOutcome = "Unsubscribed"
  /\ BatchStats.total_unsubscribed = 2

\* the rows of a user in the user_activities table
RowsOf(u) == SelectSeq(db.user_activities, LAMBDA r : r.user_id = u)

\* C18: the requests of one user leave the stats and the activities of the
\* other user as they were, in memory and in the store
C18_OtherUserUntouched ==
  /\ OtherUser \in DOMAIN user_stats
  /\ user_stats[OtherUser] = OtherStats
  /\ OtherUser \in DOMAIN user_activities
  /\ user_activities[OtherUser] = OtherActivities
  /\ load_user_stats(db)[OtherUser] = OtherStats
  /\ RowsOf(OtherUser) = OtherRows
  /\ load_user_activities(db)[OtherUser] = user_activities[OtherUser]

C18_Witness ==
  /\ pc = "idle"
  /\ result = "returned"
  /\ batch.user # OtherUser
  /\ DomainCount(BatchStats, "x.com") >= 1
  /\ Len(RowsOf(batch.user)) = ActivityLimit
  /\ db.next_id > ActivityLimit + 4

\* the totals of a user in a stats dict, zero when the user has none
Totals(stats_map, u) ==
  IF u \in DOMAIN stats_map
  THEN <<stats_map[u].total_scanned, stats_map[u].total_unsubscribed>>
  ELSE <<0, 0>>

\* C19: as long as the rows of a user have not been erased, no step (of a
\* batch, an authentication or a restart of the process) lowers the user's
\* total_scanned or total_unsubscribed, in memory or in the store
C19_TotalsNeverDecrease ==
  [][\A u \in Users :
       u \notin lifecycle'.erased =>
         /\ Totals(user_stats', u)[1] >= Totals(user_stats, u)[1]
         /\ Totals(user_stats', u)[2] >= Totals(user_stats, u)[2]
         /\ Totals(db'.user_stats, u)[1] >= Totals(db.user_stats, u)[1]
         /\ Totals(db'.user_stats, u)[2] >= Totals(db.user_stats, u)[2]]_vars

RECURSIVE LeavesOf(_)
RECURSIVE LeavesOfParts(_, _)

\* the leaves of a MIME tree in depth-first, listed-child order
LeavesOf(node) ==
  IF node.parts = <<>> THEN <<node>> ELSE LeavesOfParts(node.parts, 1)

LeavesOfParts(parts, k) ==
  IF k > Len(parts) THEN <<>> ELSE LeavesOf(parts[k]) \o LeavesOfParts(parts, k + 1)

\* the content of the first of the leaves that is of type mime and, if
\* with_data is asked for, carries inline data; "" when there is none
FirstLeafContent(leaves, mime, with_data) ==
  LET hits == {k \in 1..Len(leaves) :
                 leaves[k].mimeType = mime /\ (with_data => leaves[k].body.has_data)}
  IN  IF hits = {} THEN <<>>
      ELSE leaves[CHOOSE k \in hits : \A j \in hits : k <= j].body.html

HasLeaf(leaves, mime, with_data) ==
  \E k \in 1..Len(leaves) : leaves[k].mimeType = mime /\ (with_data => leaves[k].body.has_data)

\* first leaf of type text/html, else first leaf of type text/plain, else ""
BodyByType(node, with_data) ==
  LET leaves == IF node = NoPayload THEN <<>> ELSE LeavesOf(node)
  IN  IF HasLeaf(leaves, "text/html", with_data) THEN FirstLeafContent(leaves, "text/html", with_data)
      ELSE FirstLeafContent(leaves, "text/plain", with_data)

\* no leaf carries an empty inline body
NoEmptyData(node) ==
  \A k \in 1..Len(LeavesOf(node)) :
    LeavesOf(node)[k].body.has_data => LeavesOf(node)[k].body.html # <<>>

FirstDecodable(leaves, mime) ==
  LET hits == {k \in 1..Len(leaves) :
                 /\ leaves[k].mimeType = mime
                 /\ leaves[k].body.has_data
                 /\ leaves[k].body.decodable}
  IN  IF hits = {} THEN <<>>
      ELSE leaves[CHOOSE k \in hits : \A j \in hits : k <= j].body.html

Fetched == calls >= 1 /\ fetch_result = "ok" /\ payload # NoPayload

\* C21: a leaf whose data cannot be decoded is passed over and the search
\* goes on with the leaves after it: when the tree has a text/html leaf that
\* decodes, the content returned is that of the first such leaf
C21_MalformedLeafIsPassedOver ==
  (Fetched /\ FirstDecodable(LeavesOf(payload), "text/html") # <<>>)
    => email_data.content = FirstDecodable(LeavesOf(payload), "text/html")

\* C22: whatever the fetch and the payload did, get_email returned a record
\* of content and metadata, with empty content when the fetch raised or
\* answered with nothing or the payload was empty, and the link locator
\* answers an empty body with the empty list
C22_ExtractionNeverRaises ==
  calls >= 1 =>
    /\ DOMAIN email_data = {"content", "metadata"}
    /\ (fetch_result # "ok" \/ payload = NoPayload) => email_data.content = <<>>
    /\ email_data.content = <<>> => extract_unsub_links(email_data.content) = <<>>

\* after an earlier call, a message whose two leaves are both malformed was
\* answered with empty content
C22_Witness ==
  /\ calls >= 2
  /\ fetch_result = "ok"
  /\ payload = Multi(<<Leaf("text/html", BadBody), Leaf("text/plain", BadBody)>>)
  /\ email_data.content = <<>>
  /\ extract_unsub_links(email_data.content) = <<>>

MetadataKeys == {"sender", "sender_name", "sender_email", "domain", "subject", "date"}

\* C23: the metadata get_email returned has the six keys, whatever the fetch
\* and the payload did
C23_MetadataHasSixKeys ==
  calls >= 1 => DOMAIN email_data.metadata = MetadataKeys

\* the pattern as the claim words it: unsubscribe, opt-out, email
\* preferences, manage preferences
ClaimedPatternHits == PatternHits \cup {"Manage preferences"}

\* the hrefs of the fixtures whose scheme is http or https
HttpHrefs == {"https://x.com/unsubscribe", "https://x.com/other", "http://x.com/shop"}

RECURSIVE HrefsOf(_)
HrefsOf(anchors) ==
  IF anchors = <<>> THEN <<>> ELSE <<Head(anchors).href>> \o HrefsOf(Tail(anchors))

\* C24: the links returned are, in document order and with repetitions, the
\* hrefs of the anchors whose text or href matches the pattern and whose
\* href is an http or https address
C24_MatchingHttpAnchorsInOrder ==
  calls >= 1 =>
    unsub_links =
      HrefsOf(SelectSeq(email_data.content,
                        LAMBDA e : /\ e.tag = "a"
                                   /\ (e.text \in ClaimedPatternHits \/ e.href \in ClaimedPatternHits)
                                   /\ e.href \in HttpHrefs))

\* C25: every call made one request, to the link it was given, and returned
\* a boolean: true when the answer was the status 200, false for every other
\* status and for a timeout or a connection error
C25_TrueIffStatus200 ==
  /\ Len(requested) = calls
  /\ \A k \in 1..Len(requested) :
       /\ requested[k].href = unsub_links[1]
       /\ requested[k].ok \in BOOLEAN
       /\ requested[k].ok = (requested[k].status = 200)
  /\ calls >= 1 => unsubscribed = requested[calls].ok

\* three calls: no content, no answer at all, then the status 200
C25_Witness ==
  /\ calls = 3
  /\ requested[1].status = 204 /\ ~requested[1].ok
  /\ requested[2].status = 0 /\ ~requested[2].ok
  /\ requested[3].status = 200 /\ requested[3].ok
  /\ unsubscribed

\* C26: in every state, each of the three endpoints answers a client that
\* holds a token with a rendered payload: none of them is handed a set
C26_StatsPayloadsAreRendered ==
  \A u \in tokens :
    /\ get_stats(user_stats, u).status = 200
    /\ get_unsubscription_status(user_stats, user_activities, u).status = 200
    /\ get_unsubscribed_services(user_stats, u).status = 200

\* C27: once the map was saved, load_user_stats returns every user of the
\* map with the totals, and per domain the count, sender_name and emails, of
\* the map
C27_StatsRoundTrip ==
  (calls >= 1 /\ runs = 0) =>
    \A u \in DOMAIN user_stats :
      /\ u \in DOMAIN load_user_stats(db)
      /\ load_user_stats(db)[u] = user_stats[u]

\* C28: the lists loaded after a save have, for every user of the saved map,
\* the length of the saved list and the same type, message and metadata at
\* every position
C28_ActivitiesRoundTrip ==
  runs = 1 =>
    \A u \in DOMAIN added :
      /\ u \in DOMAIN user_activities
      /\ Len(user_activities[u]) = Len(added[u])
      /\ \A j \in 1..Len(added[u]) :
           LET saved == Reversed(added[u])[j]
               loaded == user_activities[u][j]
           IN  /\ loaded.type = saved.type
               /\ loaded.message = saved.message
               /\ loaded.metadata = saved.metadata

\* the run is over: it returned after the no-results warning or the summary,
\* or its fatal error went to the caller
Terminal == pc = "idle" /\ result \in {"returned", "raised"}

\* C29: every request being served reaches a terminal state
C29_BatchTerminates == (pc # "idle") ~> Terminal

\* a run over three messages ended with its summary after failures of
\* different kinds
C29_Witness ==
  /\ Terminal
  /\ result = "returned"
  /\ Len(outcomes) = 3
  /\ "Unsubscribed" \in {outcomes[k] : k \in 1..Len(outcomes)}
  /\ Cardinality({outcomes[k] : k \in 1..Len(outcomes)}) = 3

\* the run went through its messages and returned
Summarised == Terminal /\ result = "returned" /\ batch.found # <<>>

\* the newest activity of the user the run served
LastActivity == Head(ActivitiesOf(batch.user))

\* the activity is the summary, of type success, the last one the run emitted
\* and the last one added for the user
SummaryIsLast ==
  /\ LastActivity.type = "success"
  /\ LastActivity.message.text = "Process completed"
  /\ LastActivity = added[batch.user][Len(added[batch.user])]
  /\ emitted[Len(emitted)].text = "Process completed"
  /\ SummaryCount = 1

\* its counts add up to the messages of the batch, and the succeeded count is
\* the number of messages that ended Unsubscribed
SummaryCountsRight ==
  /\ LastActivity.message.ok + LastActivity.message.failed = Len(batch.found)
  /\ LastActivity.message.i = Len(batch.found)
  /\ LastActivity.message.ok =
       Cardinality({k \in 1..Len(outcomes) : outcomes[k] = "Unsubscribed"})

\* its text interpolates the user's cumulative time saved
SummaryStatesTimeSaved ==
  /\ "time_saved" \in DOMAIN LastActivity.message
  /\ LastActivity.message.time_saved = StatsOf(batch.user).time_saved

\* C30: the summary of a batch over n messages is the last activity of the
\* run, of type success, with succeeded + failed = n and succeeded the number
\* of Unsubscribed outcomes, and it states the cumulative time saved
C30_SummaryCountsAndTimeSaved ==
  Summarised => SummaryIsLast /\ SummaryCountsRight /\ SummaryStatesTimeSaved

\* the part of C30 that the summary's text does carry
SummaryWithoutTimeSaved == Summarised => SummaryIsLast /\ SummaryCountsRight

\* the header of a bare or named form whose value the metadata carries
ParsedFrom(from) ==
  /\ calls >= 1
  /\ from.form \in {"bare", "named"}
  /\ email_data.metadata.sender = FromValue(from)

\* what the claim expects of the header
ExpectedOfFrom(from) ==
  /\ email_data.metadata.sender_email = from.local \o "@" \o from.domain
  /\ email_data.metadata.domain = Lower(from.domain)
  /\ email_data.metadata.sender_name = (IF from.display # "" THEN from.display ELSE from.local)

\* C31: for a bare address and for Name <local@Domain>, sender_email is the
\* full address, domain the lowercased part after '@', and sender_name the
\* display name when present, else the local part
C31_FromHeaderIsSplit ==
  \A from \in FromHeaders : ParsedFrom(from) => ExpectedOfFrom(from)

\* the named form alone is split as the claim says
NamedFromIsSplit ==
  \A from \in FromHeaders : ParsedFrom(from) /\ from.form = "named" => ExpectedOfFrom(from)

\* the sum of count over the entries of domains_unsubscribed
RECURSIVE SumOfCounts(_, _)
SumOfCounts(domains, left) ==
  IF left = {} THEN 0
  ELSE LET d == CHOOSE x \in left : TRUE
       IN  domains[d].count + SumOfCounts(domains, left \ {d})

AttributedCount(stats) == SumOfCounts(stats.domains_unsubscribed, DOMAIN stats.domains_unsubscribed)

\* C32: between batch runs that started from zeroed stats, the counts of the
\* domain entries add up to total_unsubscribed, also when a sender's domain
\* could not be parsed
C32_CountsAddUpToTotal ==
  pc = "idle" /\ runs >= 1 =>
    \A u \in DOMAIN user_stats : AttributedCount(user_stats[u]) = user_stats[u].total_unsubscribed

\* the counts add up to the successes whose sender had a domain
CountsAddUpToParsed ==
  pc = "idle" /\ runs >= 1 =>
    \A u \in DOMAIN user_stats :
      /\ AttributedCount(user_stats[u]) <= user_stats[u].total_unsubscribed
      /\ AttributedCount(user_stats[u]) + Get(succeeded[u], "", 0) = user_stats[u].total_unsubscribed

\* both threads went through their messages
BothFinished == DOMAIN threads = ThreadIds /\ \A t \in ThreadIds : threads[t].at = "done"

\* what the two threads did, added up
IssuedScanned == threads[1].scanned + threads[2].scanned
IssuedUnsub == threads[1].unsub + threads[2].unsub
IssuedRecords == threads[1].acts + threads[2].acts

\* no increment was lost
NoLostIncrement ==
  /\ user_stats[RaceUser].total_scanned = IssuedScanned
  /\ user_stats[RaceUser].total_unsubscribed = IssuedUnsub

\* no record was lost: the list holds the newest records, as many as the
\* window takes
NoLostRecord ==
  LET list == user_activities[RaceUser]
  IN  /\ Len(list) = Min(ActivityLimit, now)
      /\ \A k \in 1..Len(list) : list[k].time = now - k + 1

\* C33: when two runs of one user interleave at the reads and writes of the
\* shared entries, no increment and no record is lost, and
\* total_unsubscribed <= total_scanned and time_saved = 2 * total_unsubscribed
\* hold once both have finished
C33_InterleavedRunsLoseNothing ==
  BothFinished =>
    /\ NoLostIncrement
    /\ NoLostRecord
    /\ user_stats[RaceUser].total_unsubscribed <= user_stats[RaceUser].total_scanned
    /\ user_stats[RaceUser].time_saved = MinutesPerUnsub * user_stats[RaceUser].total_unsubscribed

\* the rows of the user, read back, are the list in memory
PersistedIsMemory(tiebreak) == LoadTied(db, RaceUser, tiebreak) = ActivitiesOf(RaceUser)

\* the rows of the user are the records of the list in memory, in any order
PersistedSetIsMemory ==
  LET list == ActivitiesOf(RaceUser)
      rows == SelectSeq(db.user_activities, LAMBDA r : r.user_id = RaceUser)
  IN  /\ Len(rows) = Len(list)
      /\ Len(list) <= ActivityLimit
      /\ {ActivityOfRow(rows[j]) : j \in 1..Len(rows)} = {list[j] : j \in 1..Len(list)}

\* C34: after any sequence of add_activity calls the rows persisted for the
\* user are the records of the list in memory, at most 50 and in the same
\* order when loaded, also when records carry the same timestamp
C34_PersistedActivitiesAreMemory ==
  calls >= 1 => PersistedSetIsMemory /\ \A tiebreak \in TieBreaks : PersistedIsMemory(tiebreak)

\* no two records of the list in memory carry the same timestamp
NoTies ==
  LET list == ActivitiesOf(RaceUser)
  IN  \A j, k \in 1..Len(list) : j # k => list[j].time # list[k].time

\* while no two records ever carried the same timestamp the rows are the list
PersistedIsMemoryWithoutTies ==
  calls >= 1 /\ NoTies /\ Len(ActivitiesOf(RaceUser)) < ActivityLimit =>
    PersistedSetIsMemory /\ \A tiebreak \in TieBreaks : PersistedIsMemory(tiebreak)

\* C35: oauth2callback passes only a state that a login issued; a state is
\* passed at most once, never after it was passed or superseded by a later
\* login of the session; and a state whose callback was passed is no longer
\* in oauth_states
C35_StateIsIssuedAndSingleUse ==
  /\ oauth.foreign = {}
  /\ oauth.accepted \subseteq oauth.issued
  /\ oauth.late = {}
  /\ oauth.accepted \cap oauth.oauth_states = {}

\* what the check does provide: only issued states pass, and a passed state
\* has left oauth_states
IssuedOnlyAndRemoved ==
  /\ oauth.foreign = {}
  /\ oauth.accepted \subseteq oauth.issued
  /\ oauth.accepted \cap oauth.oauth_states = {}
====
